---- MODULE Spec2Model ----
(***************************************************************************)
(* A model of the CBOR decoder and encoder of picatz/cbor.                 *)
(*                                                                         *)
(* The byte source of a Decoder is the sequence `data` read from cursor    *)
(* `pos`.  Every decoding function of decoder.go is an operator that takes *)
(* the decoder, the cursor, the reflected type and current value of the    *)
(* destination, and yields the new cursor, the error and the new value.    *)
(*                                                                         *)
(* 64-bit machine words are sequences of eight bytes, most significant     *)
(* first, exactly as readUint64 assembles them: a uint64 is the word read  *)
(* as an unsigned number, an int64 (and an int) the same word read in      *)
(* two's complement.  Go's conversions between the two keep the word.      *)
(***************************************************************************)
EXTENDS Integers, Sequences, FiniteSets, TLC

(***************************************************************************)
(* Bounds of the model.                                                    *)
(***************************************************************************)
MaxLen == 2          \* longest stream drawn exhaustively from Alphabet
MaxDecodes == 2      \* Decode calls made on one Decoder
MaxTasks == 3        \* tasks that call storeFieldCache

(***************************************************************************)
(* Machine words.                                                          *)
(***************************************************************************)
Byte == 0..255

\* uint64(k) for a host integer 0 <= k < 2^31
W(k) == <<0, 0, 0, 0, k \div 16777216, (k \div 65536) % 256, (k \div 256) % 256, k % 256>>

\* bitwise complement of a word: -1 - int64(n) in two's complement
Not64(w) == [i \in 1..8 |-> 255 - w[i]]

\* the word of a host integer -2^31 <= k < 2^31: uint64(k), int64(k)
IntToWord(k) == IF k >= 0 THEN W(k) ELSE Not64(W(-1 - k))

\* the word is below 2^31, so that it is a host integer of the model
IsSmall(w) == w[1] = 0 /\ w[2] = 0 /\ w[3] = 0 /\ w[4] = 0 /\ w[5] < 128

\* the host integer of a small word
Val(w) == ((w[5] * 256 + w[6]) * 256 + w[7]) * 256 + w[8]

\* int64(w) < 0
IsNeg(w) == w[1] >= 128

RECURSIVE ULtFrom(_, _, _)
ULtFrom(a, b, i) ==
    IF i > 8 THEN FALSE
    ELSE IF a[i] # b[i] THEN a[i] < b[i]
    ELSE ULtFrom(a, b, i + 1)

\* a < b as uint64
ULt(a, b) == ULtFrom(a, b, 1)

\* a < b as int64
SLt(a, b) ==
    IF IsNeg(a) # IsNeg(b) THEN IsNeg(a) ELSE ULt(a, b)

\* big-endian assembly of 1, 2, 4 or 8 bytes into a uint64
WordOf(bs) == [i \in 1..8 |-> IF i + Len(bs) > 8 THEN bs[i + Len(bs) - 8] ELSE 0]

\* intN(w) widened back to int64: keep the low `w8` bytes, extend the sign
TruncS(w, w8) ==
    [i \in 1..8 |-> IF i > 8 - w8 THEN w[i]
                    ELSE IF w[9 - w8] >= 128 THEN 255 ELSE 0]

\* uintN(w) widened back to uint64: keep the low `w8` bytes
TruncU(w, w8) == [i \in 1..8 |-> IF i > 8 - w8 THEN w[i] ELSE 0]

(***************************************************************************)
(* Reflected types.  k is the reflect.Kind, sub the element types (key     *)
(* before element for a map, the field types for a struct), n the length   *)
(* of an array type, f the field descriptors of a struct type.             *)
(***************************************************************************)
Ty(k, sub, n, f) == [k |-> k, sub |-> sub, n |-> n, f |-> f]

Basic(k) == Ty(k, <<>>, 0, <<>>)
TBool == Basic("bool")
TInt == Basic("int")
TInt8 == Basic("int8")
TInt16 == Basic("int16")
TInt32 == Basic("int32")
TInt64 == Basic("int64")
TUint == Basic("uint")
TUint8 == Basic("uint8")
TUint16 == Basic("uint16")
TUint32 == Basic("uint32")
TUint64 == Basic("uint64")
TFloat32 == Basic("float32")
TFloat64 == Basic("float64")
TString == Basic("string")
TAny == Basic("interface")
TNil == Basic("invalid")
TReader == Basic("io.Reader")
TBigInt == Basic("big.Int")
PtrTo(E) == Ty("ptr", <<E>>, 0, <<>>)
SliceOf(E) == Ty("slice", <<E>>, 0, <<>>)
ArrayOf(E, n) == Ty("array", <<E>>, n, <<>>)
MapOf(K, E) == Ty("map", <<K, E>>, 0, <<>>)
StructOf(f, sub) == Ty("struct", sub, 0, f)

\* a struct field: its name, the value of its `cbor:"..."` key, whether it has
\* any struct tag, whether the tag holds a cbor key, and whether it is exported
Field(name, tag, anyTag, cborTag) ==
    [name |-> name, tag |-> tag, anyTag |-> anyTag, cborTag |-> cborTag, exported |-> TRUE]

IntKinds == {"int", "int8", "int16", "int32", "int64"}
UintKinds == {"uint", "uint8", "uint16", "uint32", "uint64"}
FloatKinds == {"float32", "float64"}

Kind(T) == T.k
Elem(T) == IF T.k = "map" THEN T.sub[2] ELSE T.sub[1]
Key(T) == T.sub[1]

\* bytes of an integer kind
Width(k) ==
    CASE k \in {"int8", "uint8"} -> 1
      [] k \in {"int16", "uint16"} -> 2
      [] k \in {"int32", "uint32"} -> 4
      [] OTHER -> 8

(***************************************************************************)
(* Values.  t is the dynamic type, nil whether a pointer, slice, map or    *)
(* interface is nil, s the bytes of a scalar (the word of an integer, the  *)
(* bytes of a string or byte slice, one byte for a bool, the bits a float  *)
(* was read from), l the parts: the target of a pointer, the elements of a *)
(* slice or array, key then value for each entry of a map, the fields of a *)
(* struct.                                                                 *)
(***************************************************************************)
Value(t, nil, s, l) == [t |-> t, nil |-> nil, s |-> s, l |-> l]

NilIface == Value(TNil, TRUE, <<>>, <<>>)

RECURSIVE Zero(_)
Zero(T) ==
    CASE T.k \in IntKinds \cup UintKinds -> Value(T, FALSE, W(0), <<>>)
      [] T.k = "bool" -> Value(T, FALSE, <<0>>, <<>>)
      [] T.k \in FloatKinds -> Value(T, FALSE, <<0>>, <<>>)
      [] T.k = "string" -> Value(T, FALSE, <<>>, <<>>)
      [] T.k = "interface" -> NilIface
      [] T.k \in {"ptr", "slice", "map"} -> Value(T, TRUE, <<>>, <<>>)
      [] T.k = "array" -> Value(T, FALSE, <<>>, [i \in 1..T.n |-> Zero(T.sub[1])])
      [] T.k = "struct" -> Value(T, FALSE, <<>>, [i \in 1..Len(T.sub) |-> Zero(T.sub[i])])
      [] OTHER -> Value(T, TRUE, <<>>, <<>>)

\* reflect.New(E): a pointer to a fresh zero E
New(E) == Value(PtrTo(E), FALSE, <<>>, <<Zero(E)>>)
\* v.Addr(): a pointer to the slot holding v, whose static type is E
Addr(E, v) == Value(PtrTo(E), FALSE, <<>>, <<v>>)

IntVal(T, w) == Value(T, FALSE, w, <<>>)
\* rv.SetInt(x) and rv.SetUint(x) truncate to the kind's width, unchecked
SetInt(T, w) == IntVal(T, TruncS(w, Width(T.k)))
SetUint(T, w) == IntVal(T, TruncU(w, Width(T.k)))
BoolVal(b) == Value(TBool, FALSE, <<IF b THEN 1 ELSE 0>>, <<>>)
StrVal(bs) == Value(TString, FALSE, bs, <<>>)
\* rv.SetBytes(buf): a byte slice holds its bytes as uint8 elements
BytesVal(bs) ==
    Value(SliceOf(TUint8), FALSE, <<>>, [i \in 1..Len(bs) |-> IntVal(TUint8, W(bs[i]))])
\* a float is kept as the bits it was read from; their count tells the format
FloatVal(T, bits) == Value(T, FALSE, bits, <<>>)

(***************************************************************************)
(* The byte source.  d is the Decoder: its reader's bytes d.r and its four *)
(* limits; p counts the bytes already consumed.                            *)
(***************************************************************************)
Decoder(r, a, m, s, b) ==
    [r |-> r, maxArrayElements |-> a, maxMapPairs |-> m, maxStringBytes |-> s, maxBytes |-> b]

\* results: the cursor, the error ("nil" for none, "panic" for a run-time
\* panic unwinding through the callers) and the value, word or bytes produced
Res(pos, err, val) == [pos |-> pos, err |-> err, val |-> val]

\* io.ReadFull(dec.r, buf) with len(buf) = n
ReadFull(d, p, n) ==
    IF n = 0 THEN Res(p, "nil", <<>>)
    ELSE IF p + n <= Len(d.r) THEN Res(p + n, "nil", SubSeq(d.r, p + 1, p + n))
    ELSE Res(Len(d.r), IF p >= Len(d.r) THEN "EOF" ELSE "unexpected EOF", <<>>)

readByte(d, p) ==
    LET after(r) ==
            Res(r.pos, r.err, IF r.err = "nil" THEN r.val[1] ELSE 0)
    IN  after(ReadFull(d, p, 1))

\* readUint8, readUint16, readUint32, readUint64 read nb = 1, 2, 4, 8 bytes
readUintN(d, p, nb) ==
    LET after(r) ==
            Res(r.pos, r.err, IF r.err = "nil" THEN WordOf(r.val) ELSE W(0))
    IN  after(ReadFull(d, p, nb))

readUint8(d, p) == readUintN(d, p, 1)
readUint16(d, p) == readUintN(d, p, 2)
readUint32(d, p) == readUintN(d, p, 4)
readUint64(d, p) == readUintN(d, p, 8)

\* the `switch ai` that opens decodeUint, decodeBytes, decodeString,
\* decodeArray, decodeMap and decodeTag
readArgument(d, p, ai) ==
    CASE ai = 24 -> readUint8(d, p)
      [] ai = 25 -> readUint16(d, p)
      [] ai = 26 -> readUint32(d, p)
      [] ai = 27 -> readUint64(d, p)
      [] OTHER -> Res(p, "nil", W(ai))

\* the trip count of `for i := 0; i < int(n); i++`: every trip of the loops
\* it bounds reads at least one byte or returns, so a count beyond the model's
\* integers is cut at the length of the stream plus one
LoopCount(d, n) ==
    IF IsSmall(n) THEN Val(n)
    ELSE IF IsNeg(n) THEN 0
    ELSE Len(d.r) + 1

(***************************************************************************)
(* Readers of the nested path (decode, decodeBasic).                       *)
(***************************************************************************)
readBool(d, p) ==
    LET after(b) ==
            IF b.err # "nil" THEN Res(b.pos, b.err, FALSE)
            ELSE IF b.val = 244 THEN Res(b.pos, "nil", FALSE)
            ELSE IF b.val = 245 THEN Res(b.pos, "nil", TRUE)
            ELSE Res(b.pos, "cbor: invalid boolean value", FALSE)
    IN  after(readByte(d, p))

\* readInt yields an int: the word of the value
readInt(d, p) ==
    LET after(b) ==
            IF b.err # "nil" THEN Res(b.pos, b.err, W(0))
            ELSE CASE b.val = 26 -> readUint32(d, b.pos)
                   [] b.val = 27 -> readUint64(d, b.pos)
                   [] b.val <= 23 -> Res(b.pos, "nil", W(b.val))
                   [] b.val >= 24 /\ b.val <= 31 -> Res(b.pos, "nil", W(b.val % 32))
                   [] b.val = 32 -> readUint64(d, b.pos)
                   [] b.val = 33 -> readUint32(d, b.pos)
                   [] b.val = 34 -> readUint64(d, b.pos)
                   [] OTHER -> Res(b.pos, "cbor: invalid integer value", W(0))
    IN  after(readByte(d, p))

readUint(d, p) ==
    LET after(b) ==
            IF b.err # "nil" THEN Res(b.pos, b.err, W(0))
            ELSE CASE b.val <= 23 -> Res(b.pos, "nil", W(b.val))
                   [] b.val >= 24 /\ b.val <= 31 -> Res(b.pos, "nil", W(b.val % 32))
                   [] b.val = 32 -> readUint16(d, b.pos)
                   [] b.val = 33 -> readUint32(d, b.pos)
                   [] b.val = 34 -> readUint64(d, b.pos)
                   [] OTHER -> Res(b.pos, "nil", W(b.val))
    IN  after(readByte(d, p))

\* readFloat16, readFloat32 and readFloat64 yield the bits they read
readFloat16(d, p) == readUintN(d, p, 2)
readFloat32(d, p) == readUintN(d, p, 4)
readFloat64(d, p) == readUintN(d, p, 8)

\* the bits of a float64 keep the bytes of the format they were read in:
\* one byte for float64(b), 2 for readFloat16, 4 for readFloat32, 8 for
\* readFloat64
FloatBits(w, nb) == SubSeq(w, 9 - nb, 8)

readFloat(d, p) ==
    LET after(b) ==
            IF b.err # "nil" THEN Res(b.pos, b.err, <<0>>)
            ELSE LET nb == CASE b.val = 249 -> 2 [] b.val = 250 -> 4 [] b.val = 251 -> 8 [] OTHER -> 0
                     r == readUintN(d, b.pos, nb)
                 IN  IF nb = 0 THEN Res(b.pos, "nil", <<b.val>>)
                     ELSE IF r.err # "nil" THEN Res(r.pos, r.err, <<0>>)
                     ELSE Res(r.pos, "nil", FloatBits(r.val, nb))
    IN  after(readByte(d, p))

\* readStringBytes(n) with n an int
readStringBytes(d, p, n) ==
    IF n = W(0) THEN Res(p, "nil", <<>>)
    ELSE IF SLt(IntToWord(d.maxStringBytes), n) THEN Res(p, "cbor: string too large", <<>>)
    ELSE IF ~IsSmall(n) THEN Res(p, "panic", <<>>)
    ELSE ReadFull(d, p, Val(n))

\* readString, were its `case b == 0xf6` to yield the text "null" and not
\* the empty string
readStringNullText(d, p) ==
    LET after(b) ==
            IF b.err # "nil" THEN Res(b.pos, b.err, <<>>)
            ELSE CASE b.val >= 96 /\ b.val <= 119 -> readStringBytes(d, b.pos, W(b.val % 32))
                   [] b.val >= 120 /\ b.val <= 127 ->
                        LET long(n) ==
                                IF n.err # "nil" THEN Res(n.pos, n.err, <<>>)
                                ELSE readStringBytes(d, n.pos, n.val)
                        IN  long(readInt(d, b.pos))
                   [] b.val = 246 -> Res(b.pos, "nil", <<110, 117, 108, 108>>)
                   [] OTHER -> Res(b.pos, "cbor: invalid string value", <<>>)
    IN  after(readByte(d, p))

readString(d, p) ==
    LET after(b) ==
            IF b.err # "nil" THEN Res(b.pos, b.err, <<>>)
            ELSE CASE b.val >= 96 /\ b.val <= 119 -> readStringBytes(d, b.pos, W(b.val % 32))
                   [] b.val >= 120 /\ b.val <= 127 ->
                        LET long(n) ==
                                IF n.err # "nil" THEN Res(n.pos, n.err, <<>>)
                                ELSE readStringBytes(d, n.pos, n.val)
                        IN  long(readInt(d, b.pos))
                   [] b.val = 246 -> Res(b.pos, "nil", <<>>)
                   [] OTHER -> Res(b.pos, "cbor: invalid string value", <<>>)
    IN  after(readByte(d, p))

readArrayHeader(d, p) ==
    LET after(b) ==
            IF b.err # "nil" THEN Res(b.pos, b.err, W(0))
            ELSE CASE b.val >= 128 /\ b.val <= 143 -> Res(b.pos, "nil", W(b.val % 16))
                   [] b.val = 159 -> readInt(d, b.pos)
                   [] b.val >= 64 /\ b.val <= 95 -> Res(b.pos, "nil", W(b.val % 32))
                   [] OTHER -> Res(b.pos, "cbor: invalid array header", W(0))
    IN  after(readByte(d, p))

readMapHeader(d, p) ==
    LET after(b) ==
            IF b.err # "nil" THEN Res(b.pos, b.err, W(0))
            ELSE CASE b.val >= 160 /\ b.val <= 175 -> Res(b.pos, "nil", W(b.val % 16))
                   [] b.val = 191 -> readInt(d, b.pos)
                   [] OTHER -> Res(b.pos, "cbor: invalid map header", W(0))
    IN  after(readByte(d, p))

(***************************************************************************)
(* strconv.Itoa on a word: decimal digits by long division.                *)
(***************************************************************************)
\* the word divided by ten: quotient word and remainder
RECURSIVE DivTen(_, _, _, _)
DivTen(w, i, rem, q) ==
    IF i > 8 THEN <<q, rem>>
    ELSE LET cur == rem * 256 + w[i]
         IN  DivTen(w, i + 1, cur % 10, Append(q, cur \div 10))

RECURSIVE Digits(_)
Digits(w) ==
    LET after(qr) ==
            IF qr[1] = W(0) THEN <<48 + qr[2]>>
            ELSE Append(Digits(qr[1]), 48 + qr[2])
    IN  after(DivTen(w, 1, 0, <<>>))

\* w + 1 modulo 2^64
RECURSIVE IncFrom(_, _)
IncFrom(w, i) ==
    IF i = 0 THEN w
    ELSE IF w[i] = 255 THEN IncFrom([w EXCEPT ![i] = 0], i - 1)
    ELSE [w EXCEPT ![i] = w[i] + 1]

Itoa(w) == IF IsNeg(w) THEN <<45>> \o Digits(IncFrom(Not64(w), 8)) ELSE Digits(w)

\* toString(v) for the values readMapKey yields
toString(v) ==
    CASE v.t.k = "string" -> v.s
      [] v.t = SliceOf(TUint8) -> [i \in 1..Len(v.l) |-> Val(v.l[i].s)]
      [] v.t.k \in IntKinds \cup UintKinds -> Itoa(v.s)
      [] v.t.k = "bool" -> IF v.s = <<1>> THEN <<116, 114, 117, 101>> ELSE <<102, 97, 108, 115, 101>>
      [] v.t.k = "invalid" -> <<110, 117, 108, 108>>
      [] v.t.k = "map" -> <<109, 97, 112, 91, 93>>
      [] OTHER -> <<91, 93>>

\* a (string, error) result as an (any, error) result
AsAny(r) == Res(r.pos, r.err, StrVal(r.val))
AsInt(r) == Res(r.pos, r.err, IF r.err = "nil" THEN IntVal(TInt, r.val) ELSE NilIface)

readMapKey(d, p) ==
    LET after(b) ==
            IF b.err # "nil" THEN Res(b.pos, b.err, NilIface)
            ELSE CASE b.val <= 23 -> Res(b.pos, "nil", IntVal(TInt, W(b.val)))
                   [] b.val >= 24 /\ b.val <= 31 -> Res(b.pos, "nil", IntVal(TInt, W(b.val % 32)))
                   [] b.val = 32 -> AsInt(readUint16(d, b.pos))
                   [] b.val = 33 -> AsInt(readUint32(d, b.pos))
                   [] b.val = 34 -> AsInt(readUint64(d, b.pos))
                   [] b.val >= 48 /\ b.val <= 63 -> AsAny(readStringBytes(d, b.pos, W(b.val % 32)))
                   [] b.val = 127 ->
                        LET long(n) ==
                                IF n.err # "nil" THEN Res(n.pos, n.err, NilIface)
                                ELSE AsAny(readStringBytes(d, n.pos, n.val))
                        IN  long(readInt(d, b.pos))
                   [] b.val = 246 -> Res(b.pos, "nil", StrVal(<<>>))
                   [] b.val = 247 -> Res(b.pos, "nil", BytesVal(<<>>))
                   [] b.val = 248 -> Res(b.pos, "nil", Value(SliceOf(TAny), FALSE, <<>>, <<>>))
                   [] b.val = 249 -> Res(b.pos, "nil", Value(MapOf(TAny, TAny), FALSE, <<>>, <<>>))
                   [] b.val \in {250, 251, 255} -> Res(b.pos, "nil", NilIface)
                   [] b.val = 64 -> Res(b.pos, "nil", BoolVal(FALSE))
                   [] b.val >= 96 /\ b.val <= 119 -> AsAny(readStringBytes(d, b.pos, W(b.val % 32)))
                   [] b.val >= 120 /\ b.val <= 126 ->
                        LET long(n) ==
                                IF n.err # "nil" THEN Res(n.pos, n.err, NilIface)
                                ELSE AsAny(readStringBytes(d, n.pos, n.val))
                        IN  long(readInt(d, b.pos))
                   [] OTHER -> Res(b.pos, "cbor: invalid map key", NilIface)
    IN  after(readByte(d, p))

readValue(d, p) ==
    LET after(b) ==
            IF b.err # "nil" THEN Res(b.pos, b.err, NilIface)
            ELSE CASE b.val <= 23 -> Res(b.pos, "nil", IntVal(TInt, W(b.val)))
                   [] b.val >= 24 /\ b.val <= 31 -> Res(b.pos, "nil", IntVal(TInt, W(b.val % 32)))
                   [] b.val = 32 -> AsInt(readUint16(d, b.pos))
                   [] b.val = 33 -> AsInt(readUint32(d, b.pos))
                   [] b.val = 34 -> AsInt(readUint64(d, b.pos))
                   [] b.val >= 48 /\ b.val <= 63 -> AsAny(readStringBytes(d, b.pos, W(b.val % 32)))
                   [] OTHER -> Res(b.pos, "cbor: invalid value", NilIface)
    IN  after(readByte(d, p))

\* the value `rv.Set(reflect.ValueOf(&dec.r).Elem())` stores: the reader
ReaderVal == Value(TReader, FALSE, <<>>, <<>>)

decodeBasic(d, p, T, cur) ==
    LET \* the value read, stored unless the read failed
        set(r, v) == IF r.err # "nil" THEN Res(r.pos, r.err, cur) ELSE Res(r.pos, "nil", v)
        bool(r) == set(r, Value(T, FALSE, <<IF r.val THEN 1 ELSE 0>>, <<>>))
        int(r) == set(r, SetInt(T, r.val))
        uint(r) == set(r, SetUint(T, r.val))
        float(r) == set(r, FloatVal(T, r.val))
        string(r) == set(r, Value(T, FALSE, r.val, <<>>))
    IN  CASE T.k = "bool" -> bool(readBool(d, p))
          [] T.k \in IntKinds -> int(readInt(d, p))
          [] T.k \in UintKinds -> uint(readUint(d, p))
          [] T.k \in FloatKinds -> float(readFloat(d, p))
          [] T.k = "string" -> string(readString(d, p))
          [] T.k = "interface" -> Res(p, "nil", ReaderVal)
          [] OTHER -> Res(p, "cbor: cannot unmarshal into", cur)

(***************************************************************************)
(* The decoders of the top-level path (decodeValue).                       *)
(***************************************************************************)
decodeSimpleValue(d, p, T, cur, ai) ==
    LET float(r, bits) ==
            IF r.err # "nil" THEN Res(r.pos, r.err, cur)
            ELSE CASE T.k \in FloatKinds -> Res(r.pos, "nil", FloatVal(T, bits))
                   [] T.k = "ptr" /\ Elem(T).k \in FloatKinds ->
                        Res(r.pos, "nil", Value(T, FALSE, <<>>, <<FloatVal(Elem(T), bits)>>))
                   \* rv.Set(reflect.ValueOf(f)) panics unless a float64 is assignable
                   [] T.k = "interface" -> Res(r.pos, "nil", FloatVal(TFloat64, bits))
                   [] OTHER -> Res(r.pos, "panic", cur)
        read(nb, r) == float(r, FloatBits(r.val, nb))
    IN  CASE ai \in {20, 21} ->
               \* rv.SetBool panics unless rv is a bool (or a pointer to one)
               IF T.k = "ptr" /\ Elem(T).k = "bool"
               THEN Res(p, "nil", Value(T, FALSE, <<>>, <<Value(Elem(T), FALSE, <<ai - 20>>, <<>>)>>))
               ELSE IF T.k = "bool" THEN Res(p, "nil", Value(T, FALSE, <<ai - 20>>, <<>>))
               ELSE Res(p, "panic", cur)
          [] ai = 22 -> Res(p, "nil", Zero(T))
          [] ai = 23 -> Res(p, "nil", cur)
          [] ai = 25 -> Res(p, "cbor: float16 not supported", cur)
          [] ai = 26 -> read(4, readFloat32(d, p))
          [] ai = 27 -> read(8, readFloat64(d, p))
          [] OTHER -> Res(p, "cbor: invalid simple value", cur)

decodeUint(d, p, T, cur, ai) ==
    LET body(a) ==
            LET n == a.val
            IN  IF a.err # "nil" THEN Res(a.pos, a.err, cur)
                ELSE CASE T.k \in UintKinds -> Res(a.pos, "nil", SetUint(T, n))
                       [] T.k \in IntKinds -> Res(a.pos, "nil", SetInt(T, n))
                       [] T.k = "interface" -> Res(a.pos, "nil", IntVal(TUint64, n))
                       [] T.k = "ptr" ->
                            LET E == Elem(T)
                                tgt == IF cur.nil THEN Zero(E) ELSE cur.l[1]
                            IN  CASE E.k \in UintKinds -> Res(a.pos, "nil", Addr(E, SetUint(E, n)))
                                  [] E.k \in IntKinds -> Res(a.pos, "nil", Addr(E, SetInt(E, n)))
                                  [] E.k = "interface" -> Res(a.pos, "nil", Addr(E, IntVal(TUint64, n)))
                                  [] OTHER -> Res(a.pos, "cbor: cannot unmarshal uint into", Addr(E, tgt))
                       [] OTHER -> Res(a.pos, "cbor: cannot unmarshal uint into", cur)
    IN  body(readArgument(d, p, ai))

decodeInt(d, p, T, cur, ai) ==
    LET set(a, v) ==
            IF a.err # "nil" THEN Res(a.pos, a.err, cur)
            ELSE CASE T.k \in IntKinds -> Res(a.pos, "nil", SetInt(T, v))
                   [] T.k = "interface" -> Res(a.pos, "nil", IntVal(TInt64, v))
                   [] T.k = "ptr" /\ ~cur.nil /\ Elem(T).k \in IntKinds ->
                        Res(a.pos, "nil", Addr(Elem(T), SetInt(Elem(T), v)))
                   [] T.k = "ptr" /\ ~cur.nil /\ Elem(T).k = "interface" ->
                        Res(a.pos, "nil", Addr(Elem(T), IntVal(TInt64, v)))
                   [] OTHER -> Res(a.pos, "cbor: cannot unmarshal int into", cur)
        \* -1 - int64(n) of the n that decodeUint has stored through nx
        body(a) == set(a, Not64(a.val.l[1].s))
    IN  body(decodeUint(d, p, PtrTo(TUint64), New(TUint64), ai))

decodeBytes(d, p, T, cur, ai) ==
    LET set(buf) ==
            IF buf.err # "nil" THEN Res(buf.pos, buf.err, cur)
            ELSE CASE T.k = "slice" /\ Elem(T).k = "uint8" ->
                        Res(buf.pos, "nil", Value(T, FALSE, <<>>, BytesVal(buf.val).l))
                   [] T.k = "interface" -> Res(buf.pos, "nil", BytesVal(buf.val))
                   [] OTHER -> Res(buf.pos, "cbor: cannot unmarshal byte string into", cur)
        body(a) ==
            IF a.err # "nil" THEN Res(a.pos, a.err, cur)
            ELSE IF ~IsSmall(a.val) THEN Res(a.pos, "cbor: byte string too long", cur)
            ELSE IF ULt(IntToWord(d.maxBytes), a.val)
            THEN Res(a.pos, "cbor: byte string too long", cur)
            ELSE set(ReadFull(d, a.pos, Val(a.val)))
    IN  body(readArgument(d, p, ai))

decodeString(d, p, T, cur, ai) ==
    LET set(buf) ==
            IF buf.err # "nil" THEN Res(buf.pos, buf.err, cur)
            ELSE CASE T.k = "string" -> Res(buf.pos, "nil", Value(T, FALSE, buf.val, <<>>))
                   [] T.k = "interface" -> Res(buf.pos, "nil", StrVal(buf.val))
                   [] T = PtrTo(TString) -> Res(buf.pos, "nil", Addr(TString, StrVal(buf.val)))
                   [] OTHER -> Res(buf.pos, "cbor: cannot unmarshal string into", cur)
        body(a) ==
            IF a.err # "nil" THEN Res(a.pos, a.err, cur)
            ELSE IF ~IsSmall(a.val) THEN Res(a.pos, "cbor: string too long", cur)
            ELSE set(ReadFull(d, a.pos, Val(a.val)))
    IN  body(readArgument(d, p, ai))

(***************************************************************************)
(* Struct fields.                                                          *)
(***************************************************************************)
\* strings.Index(s, pat): the 0-based index of the first match, or -1
RECURSIVE IndexFrom(_, _, _)
IndexFrom(s, pat, i) ==
    IF i + Len(pat) > Len(s) THEN -1
    ELSE IF SubSeq(s, i + 1, i + Len(pat)) = pat THEN i
    ELSE IndexFrom(s, pat, i + 1)

Index(s, pat) == IndexFrom(s, pat, 0)

\* ",keyasint"
KeyAsInt == <<44, 107, 101, 121, 97, 115, 105, 110, 116>>

\* the key under which decodeMap's field loop enters a field in fieldCache
CacheKey(fd) ==
    IF ~fd.anyTag THEN fd.name
    ELSE IF Index(fd.tag, KeyAsInt) # -1 THEN SubSeq(fd.tag, 1, Index(fd.tag, KeyAsInt))
    ELSE fd.tag

\* whether that loop enters the field at all
Cached(fd) == fd.exported /\ (~fd.anyTag \/ fd.cborTag)

\* fieldCache[keyStr]: the last field entered under the key, 0 for none
RECURSIVE LookupFrom(_, _, _)
LookupFrom(T, keyStr, i) ==
    IF i = 0 THEN 0
    ELSE IF Cached(T.f[i]) /\ CacheKey(T.f[i]) = keyStr THEN i
    ELSE LookupFrom(T, keyStr, i - 1)

Lookup(T, keyStr) == LookupFrom(T, keyStr, Len(T.f))

\* strings.EqualFold on ASCII
Lower(b) == IF b >= 65 /\ b <= 90 THEN b + 32 ELSE b
EqualFold(a, b) ==
    Len(a) = Len(b) /\ \A i \in 1..Len(a) : Lower(a[i]) = Lower(b[i])

\* rv.FieldByNameFunc(EqualFold): the field, if exactly one matches, else 0
FieldByNameFunc(T, key) ==
    LET m == {i \in 1..Len(T.f) : EqualFold(T.f[i].name, key)}
    IN  IF Cardinality(m) = 1 THEN CHOOSE i \in m : TRUE ELSE 0

\* rv.SetMapIndex(key, val) on the entries of a map
RECURSIVE MapSetFrom(_, _, _, _)
MapSetFrom(l, k, v, i) ==
    IF i > Len(l) THEN l \o <<k, v>>
    ELSE IF l[i] = k /\ k.t.k # "ptr" THEN [l EXCEPT ![i + 1] = v]
    ELSE MapSetFrom(l, k, v, i + 2)

SetMapIndex(l, k, v) == MapSetFrom(l, k, v, 1)

(***************************************************************************)
(* The containers, the tags and the dispatch.                              *)
(***************************************************************************)
RECURSIVE decodeValue(_, _, _, _)
RECURSIVE decode(_, _, _, _)
RECURSIVE decodeArray(_, _, _, _, _)
RECURSIVE decodeMap(_, _, _, _, _)
RECURSIVE decodeTag(_, _, _, _, _)
RECURSIVE decodeStruct(_, _, _, _)
RECURSIVE decodeSlice(_, _, _, _)
RECURSIVE elemLoop(_, _, _, _, _, _, _)
RECURSIVE pairLoop(_, _, _, _, _, _, _)
RECURSIVE fieldLoop(_, _, _, _, _, _)
RECURSIVE nameLoop(_, _, _, _, _, _)

\* rv.Set of the parts a loop has decoded, with the loop's cursor and error;
\* atEnd when rv is set only after the loop has run to its end
SetParts(T, cur, atEnd, r) ==
    IF atEnd /\ r.err # "nil" THEN Res(r.pos, r.err, cur)
    ELSE Res(r.pos, r.err, Value(T, FALSE, <<>>, r.val))

\* the element loops of decodeArray (byAddr FALSE for pointer elements) and of
\* decodeSlice: elements i..n of the slots l, each of type E
elemLoop(d, p, E, l, i, n, byAddr) ==
    IF i > n THEN Res(p, "nil", l)
    ELSE IF i > Len(l) THEN Res(p, "panic", l)
    ELSE LET after(r) ==
                 LET l2 == [l EXCEPT ![i] = IF byAddr THEN r.val.l[1] ELSE r.val]
                 IN  IF r.err # "nil" THEN Res(r.pos, r.err, l2)
                     ELSE elemLoop(d, r.pos, E, l2, i + 1, n, byAddr)
         IN  after(decode(d, p, IF byAddr THEN PtrTo(E) ELSE E,
                          IF byAddr THEN Addr(E, l[i]) ELSE l[i]))

decodeArray(d, p, T, cur, ai) ==
    LET body(a) ==
            LET n == a.val
                \* the slots and the trip count of the loop for each kind of rv
                E == IF T.k = "interface" THEN TAny ELSE Elem(T)
                l0 == CASE T.k = "slice" /\ ~cur.nil -> cur.l
                        [] T.k = "array" -> cur.l
                        [] OTHER -> [i \in 1..Val(n) |-> Zero(E)]
                cnt == CASE T.k = "slice" ->
                              IF IsSmall(n) THEN Val(n)
                              ELSE IF IsNeg(n) THEN 0 ELSE Len(l0) + 1
                         [] T.k = "array" -> T.n
                         [] OTHER -> Val(n)
                \* each element of an interface rv is handed to decode as an
                \* interface, not a pointer
                byAddr == T.k # "interface" /\ E.k # "ptr"
            IN  IF a.err # "nil" THEN Res(a.pos, a.err, cur)
                ELSE IF ULt(IntToWord(d.maxArrayElements), n)
                THEN Res(a.pos, "cbor: array too long", cur)
                ELSE IF T.k \notin {"slice", "array", "interface"}
                THEN Res(a.pos, "cbor: cannot unmarshal array into", cur)
                ELSE IF T.k = "array" /\ (~IsSmall(n) \/ Val(n) # T.n)
                THEN Res(a.pos, "cbor: wrong array length", cur)
                \* reflect.MakeSlice and make([]interface{}, n)
                ELSE IF T.k # "array" /\ (T.k = "interface" \/ cur.nil) /\ ~IsSmall(n)
                THEN Res(a.pos, "panic", cur)
                ELSE SetParts(IF T.k = "interface" THEN SliceOf(TAny) ELSE T, cur,
                              T.k = "interface", elemLoop(d, a.pos, E, l0, 1, cnt, byAddr))
    IN  body(readArgument(d, p, ai))

\* one key/value pair of a map destination after the other: turn i decodes
\* the key of a pair when i is odd, and when i is even its value, which it
\* enters in the map under the key k of the turn before
pairLoop(d, p, T, l, i, n, k) ==
    IF i > 2 * n THEN Res(p, "nil", l)
    ELSE LET isKey == i % 2 = 1
             X == IF isKey THEN Key(T) ELSE Elem(T)
             scalar == {"string"} \cup IntKinds \cup UintKinds \cup FloatKinds
             part(r) == IF X.k = "ptr" THEN r.val ELSE r.val.l[1]
             after(r) ==
                 IF r.err # "nil" THEN Res(r.pos, r.err, l)
                 ELSE IF isKey THEN pairLoop(d, r.pos, T, l, i + 1, n, part(r))
                 \* key.Elem().Convert(*X) panics
                 ELSE IF Key(T).k = "ptr" /\ X.k \in IntKinds THEN Res(r.pos, "panic", l)
                 ELSE pairLoop(d, r.pos, T, SetMapIndex(l, k, part(r)), i + 1, n, k)
         IN  IF isKey /\ X.k \notin scalar \cup {"interface", "ptr"}
             THEN Res(p, "cbor: cannot unmarshal map key into", l)
             ELSE after(decode(d, p,
                               IF X.k \in scalar THEN PtrTo(X) ELSE X,
                               CASE X.k \in scalar -> New(X)
                                 [] X.k = "ptr" -> New(Elem(X))
                                 [] OTHER -> Zero(X)))

\* one key/value pair of a struct destination after the other
fieldLoop(d, p, T, l, i, n) ==
    IF i > n THEN Res(p, "nil", l)
    ELSE LET skip(sk) ==
                 IF sk.err = "panic" THEN Res(sk.pos, "panic", l)
                 ELSE IF sk.err # "nil"
                 THEN Res(sk.pos, "cbor: cannot unmarshal map key into", l)
                 ELSE fieldLoop(d, sk.pos, T, l, i + 1, n)
             set(idx, r) ==
                 LET l2 == [l EXCEPT ![idx] = IF T.sub[idx].k # "ptr" THEN r.val.l[1] ELSE r.val]
                 IN  IF r.err # "nil" THEN Res(r.pos, r.err, l2)
                     ELSE fieldLoop(d, r.pos, T, l2, i + 1, n)
             field(kr, idx) ==
                 IF kr.err # "nil" THEN Res(kr.pos, kr.err, l)
                 ELSE IF idx = 0 THEN skip(readValue(d, kr.pos))
                 ELSE set(idx, decode(d, kr.pos,
                                      IF T.sub[idx].k # "ptr" THEN PtrTo(T.sub[idx]) ELSE T.sub[idx],
                                      IF T.sub[idx].k # "ptr" THEN Addr(T.sub[idx], l[idx]) ELSE l[idx]))
             key(kr) == field(kr, Lookup(T, toString(kr.val)))
         IN  key(readMapKey(d, p))

decodeMap(d, p, T, cur, ai) ==
    LET body(a) ==
            LET n == LoopCount(d, a.val)
                M == IF T.k = "map" THEN T ELSE MapOf(TAny, TAny)
            IN  IF a.err # "nil" THEN Res(a.pos, a.err, cur)
                ELSE CASE T.k \in {"map", "interface"} ->
                            \* each key of an interface rv is handed to decode as an
                            \* interface, not a pointer
                            SetParts(M, cur, T.k = "interface",
                                     pairLoop(d, a.pos, M, IF T.k = "map" THEN cur.l ELSE <<>>,
                                              1, n, NilIface))
                       [] T.k = "struct" ->
                            SetParts(T, cur, FALSE, fieldLoop(d, a.pos, T, cur.l, 1, n))
                       [] OTHER -> Res(a.pos, "cbor: cannot unmarshal map into", cur)
    IN  body(readArgument(d, p, ai))

\* the tags 1..5 and 21..29 decode into rv, then refuse it for its kind
ShapedTags == (1..5) \cup (21..29)

decodeTag(d, p, T, cur, ai) ==
    LET \* rv.Set(reflect.ValueOf(val)) with val a *big.Int
        bigNum(exp, coef) ==
            IF coef.err # "nil" THEN Res(coef.pos, coef.err, cur)
            ELSE IF T.k = "interface" \/ T = PtrTo(TBigInt)
            THEN Res(coef.pos, "nil", Addr(TBigInt, Value(TBigInt, FALSE, coef.val \o exp.val, <<>>)))
            ELSE Res(coef.pos, "panic", cur)
        coefHead(exp, b2) ==
            IF b2.err # "nil" THEN Res(b2.pos, b2.err, cur)
            ELSE bigNum(exp, readArgument(d, b2.pos, b2.val))
        expArg(exp) ==
            IF exp.err # "nil" THEN Res(exp.pos, exp.err, cur)
            ELSE coefHead(exp, readByte(d, exp.pos))
        expHead(b1) ==
            IF b1.err # "nil" THEN Res(b1.pos, b1.err, cur)
            ELSE expArg(readArgument(d, b1.pos, b1.val))
        refuse(r) ==
            IF r.err # "nil" THEN r
            ELSE Res(r.pos, "cbor: cannot unmarshal tag into", r.val)
        body(a) ==
            IF a.err # "nil" THEN Res(a.pos, a.err, cur)
            ELSE CASE a.val = W(0) -> expHead(readByte(d, a.pos))
                   [] IsSmall(a.val) /\ Val(a.val) \in ShapedTags -> refuse(decode(d, a.pos, T, cur))
                   [] OTHER -> Res(a.pos, "cbor: unknown tag", cur)
    IN  body(readArgument(d, p, ai))

decode(d, p, T, cur) ==
    IF T.k # "ptr" THEN Res(p, "cbor: cannot unmarshal into non-pointer", cur)
    ELSE LET E == Elem(T)
             v == IF cur.nil THEN Zero(E) ELSE cur.l[1]
             \* a pointer below the pointer is allocated and followed once
             E2 == IF E.k = "ptr" THEN Elem(E) ELSE E
             v2 == IF E.k # "ptr" THEN v ELSE IF v.nil THEN Zero(E2) ELSE v.l[1]
             set(r) ==
                 Res(r.pos, r.err, Addr(E, IF E.k = "ptr" THEN Addr(E2, r.val) ELSE r.val))
         IN  set(CASE E.k = "interface" -> Res(p, "nil", ReaderVal)
                   [] E2.k = "struct" -> decodeStruct(d, p, E2, v2)
                   [] E2.k = "slice" -> decodeSlice(d, p, E2, v2)
                   [] E2.k = "map" -> decodeMap(d, p, E2, v2, (Len(v2.l) \div 2) % 256)
                   [] OTHER -> decodeBasic(d, p, E2, v2))

\* one name/value pair of a nested struct after the other
nameLoop(d, p, T, l, i, n) ==
    IF i > n THEN Res(p, "nil", l)
    ELSE LET set(idx, r) ==
                 LET l2 == [l EXCEPT ![idx] = r.val.l[1]]
                 IN  IF r.err # "nil" THEN Res(r.pos, r.err, l2)
                     ELSE nameLoop(d, r.pos, T, l2, i + 1, n)
             field(kr, idx) ==
                 IF kr.err # "nil" THEN Res(kr.pos, kr.err, l)
                 ELSE IF idx = 0 THEN Res(kr.pos, "cbor: unknown field", l)
                 ELSE set(idx, decode(d, kr.pos, PtrTo(T.sub[idx]), Addr(T.sub[idx], l[idx])))
             name(kr) == field(kr, FieldByNameFunc(T, kr.val))
         IN  name(readString(d, p))

decodeStruct(d, p, T, cur) ==
    LET body(h) ==
            IF h.err # "nil" THEN Res(h.pos, h.err, cur)
            ELSE SetParts(T, cur, FALSE, nameLoop(d, h.pos, T, cur.l, 1, LoopCount(d, h.val)))
    IN  body(readMapHeader(d, p))

decodeSlice(d, p, T, cur) ==
    LET body(h) ==
            IF h.err # "nil" THEN Res(h.pos, h.err, cur)
            \* reflect.MakeSlice(rv.Type(), n, n)
            ELSE IF ~IsSmall(h.val) THEN Res(h.pos, "panic", cur)
            ELSE SetParts(T, cur, TRUE,
                          elemLoop(d, h.pos, Elem(T),
                                   [i \in 1..Val(h.val) |-> Zero(Elem(T))], 1, Val(h.val), TRUE))
    IN  body(readArrayHeader(d, p))

decodeValue(d, p, T, cur) ==
    LET dispatch(h) ==
            LET mt == h.val \div 32
                ai == h.val % 32
            IN  IF h.err # "nil" THEN Res(h.pos, h.err, cur)
                ELSE CASE mt = 0 -> decodeUint(d, h.pos, T, cur, ai)
                       [] mt = 1 -> decodeInt(d, h.pos, T, cur, ai)
                       [] mt = 2 -> decodeBytes(d, h.pos, T, cur, ai)
                       [] mt = 3 -> decodeString(d, h.pos, T, cur, ai)
                       [] mt = 4 -> decodeArray(d, h.pos, T, cur, ai)
                       [] mt = 5 -> decodeMap(d, h.pos, T, cur, ai)
                       [] mt = 6 -> decodeTag(d, h.pos, T, cur, ai)
                       [] OTHER -> decodeSimpleValue(d, h.pos, T, cur, ai)
    IN  dispatch(readByte(d, p))

(***************************************************************************)
(* Destination types of the Decode calls.                                  *)
(***************************************************************************)
\* "hello", "Hello", "Foo", "Baz"
StrHello == <<104, 101, 108, 108, 111>>
StrHelloName == <<72, 101, 108, 108, 111>>
StrFoo == <<70, 111, 111>>
StrBaz == <<66, 97, 122>>

\* type testStructHello struct { Hello string `cbor:"hello"` }
TStructHello == StructOf(<<Field(StrHelloName, StrHello, TRUE, TRUE)>>, <<TString>>)
\* struct { Foo string; Baz *string }
TStructFooBaz ==
    StructOf(<<Field(StrFoo, <<>>, FALSE, FALSE), Field(StrBaz, <<>>, FALSE, FALSE)>>,
             <<TString, PtrTo(TString)>>)

\* a field `Name T` tagged `cbor:"<int>,keyasint"`, int given by its digits
KeyAsIntField(name, digits) == Field(name, digits \o KeyAsInt, TRUE, TRUE)

\* type claims struct { Iss, Sub, Aud string; Exp, Nbf, Iat int; Cti []byte },
\* tagged `cbor:"1,keyasint"` to `cbor:"7,keyasint"`
TClaims ==
    StructOf(<<KeyAsIntField(<<73, 115, 115>>, <<49>>), KeyAsIntField(<<83, 117, 98>>, <<50>>),
               KeyAsIntField(<<65, 117, 100>>, <<51>>), KeyAsIntField(<<69, 120, 112>>, <<52>>),
               KeyAsIntField(<<78, 98, 102>>, <<53>>), KeyAsIntField(<<73, 97, 116>>, <<54>>),
               KeyAsIntField(<<67, 116, 105>>, <<55>>)>>,
             <<TString, TString, TString, TInt, TInt, TInt, SliceOf(TUint8)>>)

\* struct { Exp int `cbor:"4,keyasint"`; Far int `cbor:"100,keyasint"` }
TStructFar ==
    StructOf(<<KeyAsIntField(<<69, 120, 112>>, <<52>>),
               KeyAsIntField(<<70, 97, 114>>, <<49, 48, 48>>)>>,
             <<TInt, TInt>>)

\* struct { Name string `cbor:"n"` }
TStructTagged == StructOf(<<Field(<<78, 97, 109, 101>>, <<110>>, TRUE, TRUE)>>, <<TString>>)

\* type hooked struct { raw []byte }, an Unmarshaler and a Marshaler:
\* UnmarshalCBOR(b) keeps a copy of b in raw and returns nil, MarshalCBOR()
\* returns raw and nil
THooked ==
    StructOf(<<[Field(<<114, 97, 119>>, <<>>, FALSE, FALSE) EXCEPT !.exported = FALSE]>>,
             <<SliceOf(TUint8)>>)

DestTypes ==
    {TBool, TInt, TInt8, TInt64, TUint8, TUint64, TFloat64, TString, TAny,
     PtrTo(TInt), SliceOf(TUint8), SliceOf(TInt), SliceOf(TAny), SliceOf(TString),
     SliceOf(SliceOf(TInt)), ArrayOf(TInt, 2),
     MapOf(TString, TString), MapOf(TInt, TInt), TStructHello, SliceOf(TStructFooBaz),
     TClaims, TStructFar, TStructTagged, SliceOf(TStructTagged), TStructFooBaz,
     SliceOf(PtrTo(TStructFooBaz)), THooked}

\* what a caller hands to Decode: a pointer to a zero T, a T itself, a nil
\* *T, or the untyped nil
DestArgs ==
    [mode : {"ptr"}, T : DestTypes]
        \cup [mode : {"value", "nilptr"}, T : {TInt, SliceOf(TInt)}]
        \cup [mode : {"nil"}, T : {TNil}]

(***************************************************************************)
(* The streams a Decoder is constructed on.                                *)
(***************************************************************************)
Alphabet == {1, 24, 129, 246}

RECURSIVE ByteStrings(_)
ByteStrings(n) ==
    IF n = 0 THEN {<<>>}
    ELSE ByteStrings(n - 1)
         \cup {Append(s, b) : s \in {t \in ByteStrings(n - 1) : Len(t) = n - 1}, b \in Alphabet}

\* the claims map of RFC 8392, appendix A.1
CWTClaims ==
    <<167, 1, 117, 99, 111, 97, 112, 58, 47, 47, 97, 115, 46, 101, 120, 97, 109, 112,
      108, 101, 46, 99, 111, 109, 2, 101, 101, 114, 105, 107, 119, 3, 120, 24, 99, 111,
      97, 112, 58, 47, 47, 108, 105, 103, 104, 116, 46, 101, 120, 97, 109, 112, 108,
      101, 46, 99, 111, 109, 4, 26, 86, 18, 174, 176, 5, 26, 86, 16, 217, 240, 6, 26,
      86, 16, 217, 240, 7, 66, 11, 113>>

Corpus ==
    { <<161, 101, 104, 101, 108, 108, 111, 101, 119, 111, 114, 108, 100>>, \* {"hello": "world"}
      <<130, 1, 2>>,                                     \* [1, 2]
      <<155, 0, 0, 66, 250, 66, 250, 66, 250, 66>>,      \* BenchmarkDecodeMalformed
      <<129, 162, 99, 102, 111, 111, 99, 98, 97, 114, 99, 98, 97, 122, 246>>,
                                                         \* [{"foo":"bar","baz":null}]
      <<24, 100>>, <<25, 1, 0>>, <<24, 128>>, <<56, 128>>, <<32>>, <<56, 127>>,
      <<27, 128, 0, 0, 0, 0, 0, 0, 0>>, <<59, 128, 0, 0, 0, 0, 0, 0, 0>>,
      <<129, 24, 100>>, <<129, 24, 100, 1>>, <<129, 32, 1, 2, 3, 4, 5, 6, 7, 8>>,
      <<1, 2>>, <<97, 97, 1>>, <<129, 129, 1>>, <<129, 130, 1, 1>>, <<130, 1, 1>>,
      <<162, 1, 1, 2, 2>>, <<161, 1, 1>>, <<98, 97, 97>>, <<129, 98, 97, 97>>,
      <<66, 1, 2>>, <<244>>, <<245>>, <<160>>, <<128>>, <<250, 0, 0, 0, 0>>,
      <<192, 1, 1>>, <<193, 1>>, <<198, 1>>, <<161, 97, 97, 1>>,
      <<28>>, <<61>>, <<254>>,                           \* reserved heads
      <<162, 1, 1, 1, 2>>, <<162, 32, 1, 32, 2>>,         \* {1: 1, 1: 2}, {-1: 1, -1: 2}
      CWTClaims,
      <<161, 4, 1>>, <<161, 24, 100, 1>>, <<161, 4, 24, 100>>,  \* {4: 1}, {100: 1}, {4: 100}
      <<161, 97, 110, 97, 120>>, <<129, 161, 97, 110, 97, 120>>,  \* {"n": "x"}, [{"n": "x"}]
      \* {"z": "x"}, {"z": 1, "n": "x"}
      <<161, 97, 122, 97, 120>>, <<162, 97, 122, 1, 97, 110, 97, 120>>,
      \* {"Baz": null}, {"Foo": null}, {4: null}
      <<161, 99, 66, 97, 122, 246>>, <<161, 99, 70, 111, 111, 246>>, <<161, 4, 246>>,
      \* [{"foo":"bar"}] declaring two pairs, and declaring one
      <<129, 162, 99, 102, 111, 111, 99, 98, 97, 114>>,
      <<129, 161, 99, 102, 111, 111, 99, 98, 97, 114>>,
      \* [{"baz":null}], [{"baz":null},{"foo":"bar"}], [{"baz":"x","baz":null}],
      \* [{"baz":null,"baz":"x"}], [{"baz"
      <<129, 161, 99, 98, 97, 122, 246>>,
      <<130, 161, 99, 98, 97, 122, 246, 161, 99, 102, 111, 111, 99, 98, 97, 114>>,
      <<129, 162, 99, 98, 97, 122, 97, 120, 99, 98, 97, 122, 246>>,
      <<129, 162, 99, 98, 97, 122, 246, 99, 98, 97, 122, 97, 120>>,
      <<129, 161, 99, 98, 97, 122>>,
      \* [1] then [1, 2], and [1, 2] then [1]
      <<129, 1, 130, 1, 2>>, <<130, 1, 2, 129, 1>>,
      \* indefinite-length [], [1] and {1: 1}
      <<159, 255>>, <<159, 1, 255>>, <<191, 1, 1, 255>> }

Inputs == ByteStrings(MaxLen) \cup Corpus

\* the arguments the callers give the setters
LimitValues == {-1, 1}

(***************************************************************************)
(* The Decoder and its caller.                                             *)
(***************************************************************************)
VARIABLES
    data,              \* the bytes of the reader dec.r
    pos,               \* how many of them have been read
    maxArrayElements, maxMapPairs, maxStringBytes, maxBytes,
    calls,             \* how many Decode calls were made
    last,              \* the latest call on the Decoder: for a Decode its
                       \* argument, the cursor before it, its error and the
                       \* destination after it; for a setter its argument
    structTypeCache,   \* the package's cache of field tables, by struct type
    tasks              \* the tasks that call storeFieldCache: where each one
                       \* is in the function, its rv and its local fieldCache

vars == <<data, pos, maxArrayElements, maxMapPairs, maxStringBytes, maxBytes, calls, last,
          structTypeCache, tasks>>

\* the struct types the tasks build field tables for
RecordTypes == {TStructHello, TStructFar}

\* structTypeCache.Load(t) of a type that was never stored
NoEntry == [by |-> 0, fc |-> {}]

\* a task that has not called storeFieldCache
Idle == [pc |-> "idle", T |-> TNil, fc |-> {}, made |-> FALSE]

DefaultMaxValue == 1000000

dec == Decoder(data, maxArrayElements, maxMapPairs, maxStringBytes, maxBytes)

Call(op, mode, T, start, err, val, n) ==
    [op |-> op, mode |-> mode, T |-> T, start |-> start, err |-> err, val |-> val, n |-> n]

\* the record of a setter call with argument n
Setter(op, n) == Call(op, "none", TNil, pos, "nil", NilIface, n)

\* NewDecoder(r)
Init ==
    /\ data \in Inputs
    /\ pos = 0
    /\ maxArrayElements = DefaultMaxValue
    /\ maxMapPairs = DefaultMaxValue
    /\ maxStringBytes = DefaultMaxValue
    /\ maxBytes = DefaultMaxValue
    /\ calls = 0
    /\ last = Call("NewDecoder", "none", TNil, 0, "nil", NilIface, DefaultMaxValue)
    /\ structTypeCache = [T \in RecordTypes |-> NoEntry]
    /\ tasks = [i \in 1..MaxTasks |-> Idle]

\* a caller goes on with a Decoder while its calls return nil: after an error
\* the state of the stream is undefined, after a panic the caller is gone
Running == last.err = "nil" /\ calls < MaxDecodes

SetMax(n) ==
    /\ Running
    /\ maxArrayElements' = n
    /\ maxMapPairs' = n
    /\ maxStringBytes' = n
    /\ maxBytes' = n
    /\ last' = Setter("SetMax", n)
    /\ UNCHANGED <<data, pos, calls,
                 structTypeCache, tasks>>

SetMaxArrayElements(n) ==
    /\ Running
    /\ maxArrayElements' = n
    /\ last' = Setter("SetMaxArrayElements", n)
    /\ UNCHANGED <<data, pos, maxMapPairs, maxStringBytes, maxBytes, calls,
                 structTypeCache, tasks>>

\* a SetMaxMapPairs that sets the array limit with the pair limit
SetMaxMapPairsBoth(n) ==
    /\ Running
    /\ maxMapPairs' = n
    /\ maxArrayElements' = n
    /\ last' = Setter("SetMaxMapPairs", n)
    /\ UNCHANGED <<data, pos, maxStringBytes, maxBytes, calls,
                 structTypeCache, tasks>>

SetMaxMapPairs(n) ==
    /\ Running
    /\ maxMapPairs' = n
    /\ last' = Setter("SetMaxMapPairs", n)
    /\ UNCHANGED <<data, pos, maxArrayElements, maxStringBytes, maxBytes, calls,
                 structTypeCache, tasks>>

SetMaxStringBytes(n) ==
    /\ Running
    /\ maxStringBytes' = n
    /\ last' = Setter("SetMaxStringBytes", n)
    /\ UNCHANGED <<data, pos, maxArrayElements, maxMapPairs, maxBytes, calls,
                 structTypeCache, tasks>>

SetMaxBytes(n) ==
    /\ Running
    /\ maxBytes' = n
    /\ last' = Setter("SetMaxBytes", n)
    /\ UNCHANGED <<data, pos, maxArrayElements, maxMapPairs, maxStringBytes, calls,
                 structTypeCache, tasks>>

\* dec.Decode(v) as a function of the decoder, the cursor and the argument
DecodeResult(d, p, arg) ==
    CASE arg.mode = "nil" -> Res(p, "panic", NilIface)   \* rv.Type() of the zero Value
      [] arg.mode = "value" -> Res(p, "cbor: Decode(non-pointer", Zero(arg.T))
      [] arg.mode = "nilptr" -> Res(p, "cbor: Decode(nil", Zero(PtrTo(arg.T)))
      [] OTHER -> decodeValue(d, p, arg.T, Zero(arg.T))

Decode(arg) ==
    /\ Running
    /\ \E r \in {DecodeResult(dec, pos, arg)} :
          /\ pos' = r.pos
          /\ last' = Call("Decode", arg.mode, arg.T, pos, r.err, r.val, 0)
    /\ calls' = calls + 1
    /\ UNCHANGED <<data, maxArrayElements, maxMapPairs, maxStringBytes, maxBytes,
                 structTypeCache, tasks>>

Next ==
    \/ \E n \in LimitValues : SetMax(n)
    \/ \E n \in LimitValues : SetMaxArrayElements(n)
    \/ \E n \in LimitValues : SetMaxMapPairs(n)
    \/ \E n \in LimitValues : SetMaxStringBytes(n)
    \/ \E n \in LimitValues : SetMaxBytes(n)
    \/ \E arg \in DestArgs : Decode(arg)

Spec == Init /\ [][Next]_vars

\* a Decoder on a stream of two bytes at most, and its caller
InitLimits == Init /\ Len(data) <= 2

SpecLimits == InitLimits /\ [][Next]_vars

(***************************************************************************)
(* The field-table cache.  A task that calls storeFieldCache(rv) loads the *)
(* entry of rv's type from structTypeCache and returns it when there is    *)
(* one; otherwise it builds a table in its local fieldCache, stores it     *)
(* under the type and returns it.  Load and Store of a sync.Map are atomic *)
(* each; nothing holds the tasks back between them.                        *)
(***************************************************************************)
\* the table the loop over the fields of a struct of type T builds: the keys
\* and, for each one, the field entered under it
fieldCache(T) ==
    {<<CacheKey(T.f[i]), Lookup(T, CacheKey(T.f[i]))>> :
        i \in {j \in 1..Len(T.f) : Cached(T.f[j])}}

\* task i calls storeFieldCache on a struct of type T:
\* structTypeCache.Load(t), and the return of the entry when there is one
LoadCache(i, T) ==
    /\ tasks[i].pc = "idle"
    /\ tasks' = [tasks EXCEPT ![i] =
                    IF structTypeCache[T] # NoEntry
                    THEN [pc |-> "done", T |-> T, fc |-> structTypeCache[T].fc, made |-> FALSE]
                    ELSE [pc |-> "build", T |-> T, fc |-> {}, made |-> FALSE]]
    /\ UNCHANGED <<data, pos, maxArrayElements, maxMapPairs, maxStringBytes, maxBytes,
                   calls, last, structTypeCache>>

\* make(fieldCache, rv.NumField()) and the loop over the fields
BuildCache(i) ==
    /\ tasks[i].pc = "build"
    /\ tasks' = [tasks EXCEPT ![i].pc = "store", ![i].fc = fieldCache(tasks[i].T),
                              ![i].made = TRUE]
    /\ UNCHANGED <<data, pos, maxArrayElements, maxMapPairs, maxStringBytes, maxBytes,
                   calls, last, structTypeCache>>

\* structTypeCache.Store(t, fieldCache) and the return: the entry is the map
\* this task has made
StoreCache(i) ==
    /\ tasks[i].pc = "store"
    /\ structTypeCache' = [structTypeCache EXCEPT ![tasks[i].T] = [by |-> i, fc |-> tasks[i].fc]]
    /\ tasks' = [tasks EXCEPT ![i].pc = "done"]
    /\ UNCHANGED <<data, pos, maxArrayElements, maxMapPairs, maxStringBytes, maxBytes,
                   calls, last>>

NextCache ==
    \/ \E i \in 1..MaxTasks, T \in RecordTypes : LoadCache(i, T)
    \/ \E i \in 1..MaxTasks : BuildCache(i)
    \/ \E i \in 1..MaxTasks : StoreCache(i)

\* the tasks of a process that has made no Decoder yet
InitCache == Init /\ data = <<>>

SpecCache == InitCache /\ [][NextCache]_vars

\* Unmarshal(data, v): a new Decoder on the bytes and one Decode
Unmarshal(arg) == calls = 0 /\ Decode(arg)

NextUnmarshal == \E arg \in DestArgs : Unmarshal(arg)

SpecUnmarshal == Init /\ [][NextUnmarshal]_vars

\* dec.Decode(&v) once more with the variable v that the Decode before it
\* has filled: rv holds what that call left in v
DecodeAgain ==
    /\ Running
    /\ last.op = "Decode" /\ last.mode \in {"ptr", "again"}
    /\ \E r \in {decodeValue(dec, pos, last.T, last.val)} :
          /\ pos' = r.pos
          /\ last' = Call("Decode", "again", last.T, pos, r.err, r.val, Len(last.val.l))
    /\ calls' = calls + 1
    /\ UNCHANGED <<data, maxArrayElements, maxMapPairs, maxStringBytes, maxBytes,
                 structTypeCache, tasks>>

NextReuse ==
    \/ \E arg \in DestArgs : Unmarshal(arg)
    \/ DecodeAgain

\* a caller that decodes a stream of items into one variable
SpecReuse == Init /\ [][NextReuse]_vars

(***************************************************************************)
(* CBOR items (RFC 8949, section 3): where the item that starts after p    *)
(* bytes of r ends, -1 when no complete well-formed item starts there.     *)
(***************************************************************************)
ArgBytes(ai) == CASE ai = 24 -> 1 [] ai = 25 -> 2 [] ai = 26 -> 4 [] ai = 27 -> 8 [] OTHER -> 0

\* the argument of the head at p, as a word; ok tells whether it is all there
HeadArg(r, p) ==
    LET ai == r[p + 1] % 32
        nb == ArgBytes(ai)
    IN  IF ai >= 28 \/ p + 1 + nb > Len(r) THEN [ok |-> FALSE, next |-> p, n |-> W(0)]
        ELSE [ok |-> TRUE, next |-> p + 1 + nb,
              n |-> IF nb = 0 THEN W(ai) ELSE WordOf(SubSeq(r, p + 2, p + 1 + nb))]

RECURSIVE ItemEnd(_, _)
RECURSIVE ItemsEnd(_, _, _)
RECURSIVE BreakEnd(_, _, _)

\* the end of k items in a row
ItemsEnd(r, p, k) ==
    IF k = 0 THEN p
    ELSE LET e == ItemEnd(r, p)
         IN  IF e = -1 THEN -1 ELSE ItemsEnd(r, e, k - 1)

\* the end of an indefinite-length item: items up to the Break; chunk is the
\* major type every item must be a definite-length string of, or -1 for any
BreakEnd(r, p, chunk) ==
    IF p >= Len(r) THEN -1
    ELSE IF r[p + 1] = 255 THEN p + 1
    ELSE IF chunk # -1 /\ (r[p + 1] \div 32 # chunk \/ r[p + 1] % 32 = 31) THEN -1
    ELSE LET e == ItemEnd(r, p)
         IN  IF e = -1 THEN -1 ELSE BreakEnd(r, e, chunk)

ItemEnd(r, p) ==
    IF p >= Len(r) THEN -1
    ELSE LET mt == r[p + 1] \div 32
             ai == r[p + 1] % 32
             h == HeadArg(r, p)
         IN  IF ai = 31
             THEN CASE mt \in {2, 3} -> BreakEnd(r, p + 1, mt)
                    [] mt = 4 -> BreakEnd(r, p + 1, -1)
                    [] mt = 5 ->
                         \* an even number of items before the Break
                         LET e == BreakEnd(r, p + 1, -1)
                         IN  IF e # -1 /\ \E k \in 0..Len(r) : ItemsEnd(r, p + 1, 2 * k) = e - 1
                             THEN e ELSE -1
                    [] OTHER -> -1
             ELSE IF ~h.ok THEN -1
             ELSE CASE mt \in {0, 1} -> h.next
                    [] mt \in {2, 3} ->
                         IF IsSmall(h.n) /\ h.next + Val(h.n) <= Len(r) THEN h.next + Val(h.n) ELSE -1
                    [] mt = 4 ->
                         IF IsSmall(h.n) /\ Val(h.n) <= Len(r) THEN ItemsEnd(r, h.next, Val(h.n)) ELSE -1
                    [] mt = 5 ->
                         IF IsSmall(h.n) /\ Val(h.n) <= Len(r) THEN ItemsEnd(r, h.next, 2 * Val(h.n)) ELSE -1
                    [] mt = 6 -> ItemEnd(r, h.next)
                    [] OTHER -> IF ai = 24 /\ Val(h.n) < 32 THEN -1 ELSE h.next

\* where item number i (from 1) of a stream of complete items starts
ItemStart(r, i) == ItemsEnd(r, 0, i - 1)

\* the number of items of the array at p (of pairs, halved by the caller, for
\* a map) and where the first one starts
ItemCount(r, p) ==
    IF r[p + 1] % 32 = 31
    THEN CHOOSE k \in 0..Len(r) : ItemsEnd(r, p + 1, k) = BreakEnd(r, p + 1, -1) - 1
    ELSE IF r[p + 1] \div 32 = 5 THEN 2 * Val(HeadArg(r, p).n) ELSE Val(HeadArg(r, p).n)

FirstItem(r, p) == IF r[p + 1] % 32 = 31 THEN p + 1 ELSE HeadArg(r, p).next

\* the fields of record type T that the map key at kp selects: a text key
\* selects by tag value, or by name when untagged; an unsigned key selects
\* the keyasint field declaring that integer
Selected(T, r, kp) ==
    LET mt == r[kp + 1] \div 32
        h == HeadArg(r, kp)
        asInt(fd) == fd.cborTag /\ Index(fd.tag, KeyAsInt) # -1
    IN  {i \in 1..Len(T.f) :
            \/ /\ mt = 3 /\ r[kp + 1] % 32 # 31 /\ ~asInt(T.f[i])
               /\ SubSeq(r, h.next + 1, h.next + Val(h.n))
                      = (IF T.f[i].cborTag THEN T.f[i].tag ELSE T.f[i].name)
            \/ /\ mt = 0 /\ asInt(T.f[i])
               /\ SubSeq(T.f[i].tag, 1, Index(T.f[i].tag, KeyAsInt)) = Itoa(h.n)}

\* whether the complete item at p may bind to a destination of type T: the
\* compatibility of CBOR variants with destination categories
RECURSIVE Compatible(_, _, _)
Compatible(r, p, T) ==
    LET mt == r[p + 1] \div 32
        ai == r[p + 1] % 32
        n == ItemCount(r, p)
        at(i) == ItemsEnd(r, FirstItem(r, p), i - 1)
    IN  CASE T.k = "interface" \/ r[p + 1] = 246 -> TRUE
          [] T.k = "ptr" -> Compatible(r, p, Elem(T))
          [] mt = 0 -> T.k \in IntKinds \cup UintKinds \cup FloatKinds
          [] mt = 1 -> T.k \in IntKinds \cup FloatKinds
          [] mt \in {2, 3} -> T.k = "string" \/ T = SliceOf(TUint8)
          [] mt = 4 ->
               /\ T.k = "slice" \/ (T.k = "array" /\ T.n = n)
               /\ \A i \in 1..n : Compatible(r, at(i), Elem(T))
          [] mt = 5 /\ T.k = "map" ->
               /\ Key(T).k \in IntKinds \cup UintKinds \cup FloatKinds \cup {"string", "interface"}
                     \/ Key(T) = SliceOf(TUint8)
               /\ \A i \in 1..(n \div 2) :
                     /\ Compatible(r, at(2 * i - 1), Key(T))
                     /\ Compatible(r, at(2 * i), Elem(T))
          [] mt = 5 /\ T.k = "struct" ->
               \A i \in 1..(n \div 2) :
                   /\ r[at(2 * i - 1) + 1] \div 32 \in {0, 1, 3}
                   /\ \A j \in Selected(T, r, at(2 * i - 1)) :
                         Compatible(r, at(2 * i), T.sub[j])
          [] mt = 7 /\ ai \in {20, 21} -> T.k = "bool"
          [] mt = 7 /\ ai \in {25, 26, 27} -> T.k \in FloatKinds
          [] OTHER -> FALSE

\* whether the item at p is of a variant that no rule binds to a destination
\* of type T, whatever the item holds
Mismatch(r, p, T) ==
    LET mt == r[p + 1] \div 32
        ai == r[p + 1] % 32
    IN  /\ T.k \notin {"interface", "ptr"}
        /\ \/ mt \in {0, 1} /\ T.k \notin IntKinds \cup UintKinds \cup FloatKinds
           \/ mt \in {2, 3} /\ T.k \notin {"string", "slice"}
           \/ mt = 4 /\ T.k \notin {"slice", "array"}
           \/ mt = 5 /\ T.k \notin {"map", "struct"}
           \/ mt = 7 /\ ai \in {20, 21} /\ T.k # "bool"
           \/ mt = 7 /\ ai \in {25, 26, 27} /\ T.k \notin FloatKinds

\* the latest call is a Decode through a valid pointer to a T
DecodedInto == last.op = "Decode" /\ last.mode = "ptr"
Succeeded == DecodedInto /\ last.err = "nil"

(***************************************************************************)
(* C1.  Length discipline: a successful Decode of a well-formed item into  *)
(* a compatible destination leaves the source just after the item: it has  *)
(* consumed the item's bytes, no fewer and no more.                        *)
(***************************************************************************)
C1_LengthDiscipline ==
    (/\ Succeeded
     /\ ItemEnd(data, last.start) # -1
     /\ Compatible(data, last.start, last.T))
        => pos = ItemEnd(data, last.start)

\* how many complete items the stream holds back to back, -1 when it is not
\* such a stream
StreamItems(r) ==
    IF \E k \in 0..Len(r) : ItemsEnd(r, 0, k) = Len(r)
    THEN CHOOSE k \in 0..Len(r) : ItemsEnd(r, 0, k) = Len(r)
    ELSE -1

(***************************************************************************)
(* C2.  Wire order: on a stream of k complete items, when call i - 1 was a *)
(* successful Decode of item i - 1 into a compatible destination, call i   *)
(* starts at the first byte after item i - 1 and, when it succeeds, has    *)
(* read nothing past the end of item i.                                    *)
(***************************************************************************)
C2_WireOrder ==
    [][(/\ Succeeded
        /\ last'.op = "Decode" /\ last'.mode = "ptr"
        /\ calls' <= StreamItems(data)
        /\ last.start = ItemStart(data, calls)
        /\ Compatible(data, last.start, last.T)
        /\ Compatible(data, ItemStart(data, calls'), last'.T))
           => /\ last'.start = ItemStart(data, calls')
              /\ last'.err = "nil" => pos' <= ItemsEnd(data, 0, calls')]_vars

\* a declared count or length n is over the limit lim
Exceeds(n, lim) == ~IsSmall(n) \/ Val(n) > lim

\* some head of major type major in the item at p, the item's own or, when
\* the item is complete, a nested one, declares more than lim
RECURSIVE OverLimit(_, _, _, _)
OverLimit(r, p, major, lim) ==
    /\ p < Len(r)
    /\ LET mt == r[p + 1] \div 32
           ai == r[p + 1] % 32
           h == HeadArg(r, p)
       IN  \/ mt = major /\ ai < 28 /\ h.ok /\ Exceeds(h.n, lim)
           \/ /\ ItemEnd(r, p) # -1
              /\ \/ /\ mt \in {4, 5}
                    /\ \E i \in 1..ItemCount(r, p) :
                          OverLimit(r, ItemsEnd(r, FirstItem(r, p), i - 1), major, lim)
                 \/ mt = 6 /\ OverLimit(r, h.next, major, lim)

\* the latest Decode returned an error to its caller
Failed == last.err \notin {"nil", "panic"}

(***************************************************************************)
(* C4.  Array limit: a Decode of an item in which some array head, the     *)
(* top-level one or a nested one, declares more elements than              *)
(* maxArrayElements fails with an error.                                   *)
(***************************************************************************)
C4_ArrayLimit ==
    (/\ DecodedInto
     /\ maxArrayElements >= 0
     /\ OverLimit(data, last.start, 4, maxArrayElements))
        => Failed

(***************************************************************************)
(* C5.  Map-pair limit: a Decode of an item in which some map head, at any *)
(* depth, declares more pairs than maxMapPairs fails with an error,        *)
(* whatever the destination.                                               *)
(***************************************************************************)
C5_MapPairLimit ==
    (/\ DecodedInto
     /\ maxMapPairs >= 0
     /\ OverLimit(data, last.start, 5, maxMapPairs))
        => Failed

(***************************************************************************)
(* C6.  Text-string limit: a Decode of an item in which some text string,  *)
(* top-level or nested, declares more bytes than maxStringBytes fails with *)
(* an error.                                                               *)
(***************************************************************************)
C6_StringLimit ==
    (/\ DecodedInto
     /\ maxStringBytes >= 0
     /\ OverLimit(data, last.start, 3, maxStringBytes))
        => Failed

\* the values a limit takes: the default and what the setters are given
LimitSettings == LimitValues \cup {DefaultMaxValue}

(***************************************************************************)
(* C7.  Limit monotonicity: when Decode has succeeded under the limits in  *)
(* force, the same Decode of the same bytes succeeds under every setting   *)
(* in which each of the four limits is at least as large.                  *)
(***************************************************************************)
C7_LimitMonotonic ==
    Succeeded =>
        \A a, m, s, b \in LimitSettings :
            (/\ a >= maxArrayElements /\ m >= maxMapPairs
             /\ s >= maxStringBytes /\ b >= maxBytes)
                => decodeValue(Decoder(data, a, m, s, b), last.start, last.T,
                               Zero(last.T)).err = "nil"

\* the item at p is an unsigned or a negative integer with its argument
IntItem(r, p) == p < Len(r) /\ r[p + 1] \div 32 \in {0, 1} /\ HeadArg(r, p).ok

\* the integer of the item at p is in the range of integer type T
InRange(r, p, T) ==
    LET n == HeadArg(r, p).n
        w == Width(T.k)
    IN  /\ \A i \in 1..(8 - w) : n[i] = 0
        /\ IF T.k \in IntKinds THEN n[9 - w] < 128 ELSE r[p + 1] \div 32 = 0

\* that integer as an int64 or uint64 word: arg, or -1 - arg
IntOf(r, p) ==
    IF r[p + 1] \div 32 = 0 THEN HeadArg(r, p).n ELSE Not64(HeadArg(r, p).n)

(***************************************************************************)
(* C8.  Integer range: an unsigned or negative integer decoded into an     *)
(* integer destination leaves the destination equal to the integer when    *)
(* the destination's range holds it, and otherwise fails with an error: no *)
(* wrapped or truncated value is stored, and a negative integer into an    *)
(* unsigned destination always fails.                                      *)
(***************************************************************************)
C8_IntegerRange ==
    (/\ DecodedInto
     /\ IntItem(data, last.start)
     /\ last.T.k \in IntKinds \cup UintKinds)
        => IF InRange(data, last.start, last.T)
           THEN last.err = "nil" /\ last.val = IntVal(last.T, IntOf(data, last.start))
           ELSE Failed

(***************************************************************************)
(* C9.  Invalid destination: Decode called with the untyped nil, with a    *)
(* nil pointer or with a value that is not a pointer returns an error.     *)
(***************************************************************************)
C9_InvalidDestination ==
    (last.op = "Decode" /\ last.mode \in {"nil", "nilptr", "value"}) => Failed

(***************************************************************************)
(* C10.  Type mismatch: a Decode of a complete item whose variant is       *)
(* incompatible with the destination's category returns an error: it does  *)
(* not succeed and it does not abort the program.                          *)
(***************************************************************************)
C10_TypeMismatch ==
    (/\ DecodedInto
     /\ ItemEnd(data, last.start) # -1
     /\ Mismatch(data, last.start, last.T))
        => Failed

\* the stream r with k zero bytes after it
Padded(r, k) == r \o [i \in 1..k |-> 0]

\* the bytes from p on are a proper beginning of a complete item: the source
\* ends before the item does, and the missing argument bytes, payload bytes,
\* elements or pairs would complete it
Truncated(r, p) ==
    /\ p <= Len(r)
    /\ ItemEnd(r, p) = -1
    /\ \E k \in 1..(Len(r) + 8) : ItemEnd(Padded(r, k), p) # -1

\* the item that the fewest missing bytes complete may bind to T
CompletedCompatible(r, p, T) ==
    LET k == CHOOSE k \in 1..(Len(r) + 8) :
                 /\ ItemEnd(Padded(r, k), p) # -1
                 /\ \A j \in 1..(k - 1) : ItemEnd(Padded(r, j), p) = -1
    IN  Compatible(Padded(r, k), p, T)

(***************************************************************************)
(* C11.  Truncated input: a Decode on a source that ends before the        *)
(* top-level item is complete, into a destination the completed item may   *)
(* bind to, returns an error (the end-of-input error of the reader): it    *)
(* never reports success on a truncated item.                              *)
(***************************************************************************)
C11_TruncatedInput ==
    (/\ DecodedInto
     /\ Truncated(data, last.start)
     /\ CompletedCompatible(data, last.start, last.T))
        => Failed

\* the head at p carries a reserved additional-information value
ReservedHead(r, p) == p < Len(r) /\ r[p + 1] % 32 \in {28, 29, 30}

(***************************************************************************)
(* C12.  Reserved additional information: a Decode of an item whose head,  *)
(* of whatever major type, carries the additional information 28, 29 or    *)
(* 30 fails with an error.                                                 *)
(***************************************************************************)
C12_ReservedInfo ==
    (DecodedInto /\ ReservedHead(data, last.start)) => Failed

\* the bytes of the complete item at p
ItemBytes(r, p) == SubSeq(r, p + 1, ItemEnd(r, p))

\* where item number i (from 1) inside the array or map at p starts
ItemAt(r, p, i) == ItemsEnd(r, FirstItem(r, p), i - 1)

\* the value an integer, a definite-length text string or a definite-length
\* byte string binds to a destination of integer, string or []byte type T
Bound(r, p, T) ==
    CASE T.k = "string" -> StrVal(SubSeq(r, HeadArg(r, p).next + 1, ItemEnd(r, p)))
      [] T = SliceOf(TUint8) -> BytesVal(SubSeq(r, HeadArg(r, p).next + 1, ItemEnd(r, p)))
      [] OTHER -> IntVal(T, IntOf(r, p))

\* an integer item in the range of an integer type, a definite-length text
\* string for the string type, or a definite-length byte string for []byte
Binds(r, p, T) ==
    \/ /\ T.k \in IntKinds \cup UintKinds /\ IntItem(r, p) /\ InRange(r, p, T)
    \/ /\ T.k = "string" /\ r[p + 1] \div 32 = 3 /\ r[p + 1] % 32 # 31
    \/ /\ T = SliceOf(TUint8) /\ r[p + 1] \div 32 = 2 /\ r[p + 1] % 32 # 31

\* the complete item at p is a two-pair map giving the same key twice, whose
\* key and values bind to the key and element types of the map type T
DuplicateKeyMap(r, p, T) ==
    /\ ItemEnd(r, p) # -1
    /\ r[p + 1] \div 32 = 5 /\ r[p + 1] % 32 # 31
    /\ ItemCount(r, p) = 4
    /\ ItemBytes(r, ItemAt(r, p, 1)) = ItemBytes(r, ItemAt(r, p, 3))
    /\ T.k = "map"
    /\ Binds(r, ItemAt(r, p, 1), Key(T))
    /\ Binds(r, ItemAt(r, p, 2), Elem(T))
    /\ Binds(r, ItemAt(r, p, 4), Elem(T))

(***************************************************************************)
(* C13.  Last-write-wins: a Decode of a map giving the key k twice, with   *)
(* the values v1 then v2, into a keyed map succeeds and leaves a map with  *)
(* the single entry k -> v2.                                               *)
(***************************************************************************)
C13_LastWriteWins ==
    (DecodedInto /\ DuplicateKeyMap(data, last.start, last.T))
        => /\ last.err = "nil"
           /\ last.val.l = <<Bound(data, ItemAt(data, last.start, 1), Key(last.T)),
                             Bound(data, ItemAt(data, last.start, 4), Elem(last.T))>>

\* the field of record type T that pair i of the map at p selects by a key
\* of major type major (0 an unsigned integer, 3 a text string), 0 when its
\* key is no such key or selects no field
KeyedField(r, p, T, i, major) ==
    LET kp == ItemAt(r, p, 2 * i - 1)
        sel == IF r[kp + 1] \div 32 = major THEN Selected(T, r, kp) ELSE {}
    IN  IF Cardinality(sel) = 1 THEN CHOOSE j \in sel : TRUE ELSE 0

\* the complete item at p is a definite-length map, each pair of which gives
\* a key of major type major selecting a field of the record type T, no
\* field twice, and a value that the field's type accepts
KeyedRecord(r, p, T, major) ==
    /\ T.k = "struct"
    /\ ItemEnd(r, p) # -1
    /\ r[p + 1] \div 32 = 5 /\ r[p + 1] % 32 # 31
    /\ ItemCount(r, p) >= 2
    /\ \A i \in 1..(ItemCount(r, p) \div 2) :
          /\ KeyedField(r, p, T, i, major) # 0
          /\ Binds(r, ItemAt(r, p, 2 * i), T.sub[KeyedField(r, p, T, i, major)])
          /\ \A j \in 1..(i - 1) : KeyedField(r, p, T, j, major) # KeyedField(r, p, T, i, major)

\* each field that a pair of the map at p selects holds, in the record v,
\* the value of its pair
FieldsBound(r, p, T, v, major) ==
    \A i \in 1..(ItemCount(r, p) \div 2) :
        LET j == KeyedField(r, p, T, i, major)
        IN  v.l[j] = Bound(r, ItemAt(r, p, 2 * i), T.sub[j])

(***************************************************************************)
(* C14.  Integer-keyed record fields: a Decode, into a record with         *)
(* keyasint fields, of a map whose pairs give declared integers and values *)
(* the fields accept succeeds and leaves in each selected field the value  *)
(* of its pair, whatever the size of the integer or of the value.          *)
(***************************************************************************)
C14_KeyAsInt ==
    (DecodedInto /\ KeyedRecord(data, last.start, last.T, 0))
        => /\ last.err = "nil"
           /\ FieldsBound(data, last.start, last.T, last.val, 0)

\* the complete item at p is a definite-length array of text-keyed maps for
\* the records of the sequence type T
KeyedRecords(r, p, T) ==
    /\ T.k = "slice" /\ Elem(T).k = "struct"
    /\ ItemEnd(r, p) # -1
    /\ r[p + 1] \div 32 = 4 /\ r[p + 1] % 32 # 31
    /\ ItemCount(r, p) >= 1
    /\ \A e \in 1..ItemCount(r, p) : KeyedRecord(r, ItemAt(r, p, e), Elem(T), 3)

(***************************************************************************)
(* C15.  Text-keyed record fields: a Decode of a map whose pairs give the  *)
(* text keys of a record's fields (the text of its annotation, or its name *)
(* when it has none) leaves in each such field the value of its pair, when *)
(* the record is the destination and when it is the element of a sequence. *)
(***************************************************************************)
C15_TextKeys ==
    /\ (DecodedInto /\ KeyedRecord(data, last.start, last.T, 3))
          => /\ last.err = "nil"
             /\ FieldsBound(data, last.start, last.T, last.val, 3)
    /\ (DecodedInto /\ KeyedRecords(data, last.start, last.T))
          => /\ last.err = "nil"
             /\ \A e \in 1..ItemCount(data, last.start) :
                   FieldsBound(data, ItemAt(data, last.start, e), Elem(last.T),
                               last.val.l[e], 3)

\* the field of record type T that pair i of the map at p selects, 0 when
\* its key matches no field
PairField(r, p, T, i) ==
    LET sel == Selected(T, r, ItemAt(r, p, 2 * i - 1))
    IN  IF Cardinality(sel) = 1 THEN CHOOSE j \in sel : TRUE ELSE 0

\* the complete item at p is a definite-length map with text or unsigned
\* integer keys, of which some match no field of the record type T and the
\* others select different fields and give values the fields accept
UnknownKeyRecord(r, p, T) ==
    /\ T.k = "struct"
    /\ ItemEnd(r, p) # -1
    /\ r[p + 1] \div 32 = 5 /\ r[p + 1] % 32 # 31
    /\ \A i \in 1..(ItemCount(r, p) \div 2) :
          /\ r[ItemAt(r, p, 2 * i - 1) + 1] \div 32 \in {0, 3}
          /\ Cardinality(Selected(T, r, ItemAt(r, p, 2 * i - 1))) <= 1
          /\ PairField(r, p, T, i) # 0 =>
                /\ Binds(r, ItemAt(r, p, 2 * i), T.sub[PairField(r, p, T, i)])
                /\ \A j \in 1..(i - 1) : PairField(r, p, T, j) # PairField(r, p, T, i)
    /\ \E i \in 1..(ItemCount(r, p) \div 2) : PairField(r, p, T, i) = 0

(***************************************************************************)
(* C16.  Unknown record keys: a Decode, into a record, of a map with pairs *)
(* whose keys match no field succeeds: each such pair is skipped with its  *)
(* value consumed in full, whatever its type, the pairs after it are       *)
(* bound, and the fields that no pair selects keep their zero value.       *)
(***************************************************************************)
C16_UnknownKeys ==
    (DecodedInto /\ UnknownKeyRecord(data, last.start, last.T))
        => /\ last.err = "nil"
           /\ pos = ItemEnd(data, last.start)
           /\ \A j \in 1..Len(last.T.sub) :
                 LET sel == {i \in 1..(ItemCount(data, last.start) \div 2) :
                                PairField(data, last.start, last.T, i) = j}
                 IN  IF sel = {} THEN last.val.l[j] = Zero(last.T.sub[j])
                     ELSE \A i \in sel :
                            last.val.l[j] = Bound(data, ItemAt(data, last.start, 2 * i),
                                                  last.T.sub[j])

\* the item at p is the simple value Null
IsNull(r, p) == p < Len(r) /\ r[p + 1] = 246

\* the complete item at p is a definite-length map whose pairs select
\* different fields of the record type T and give them Null, one at least,
\* or a value the field accepts
NullFieldRecord(r, p, T) ==
    /\ T.k = "struct"
    /\ ItemEnd(r, p) # -1
    /\ r[p + 1] \div 32 = 5 /\ r[p + 1] % 32 # 31
    /\ \A i \in 1..(ItemCount(r, p) \div 2) :
          /\ PairField(r, p, T, i) # 0
          /\ \/ IsNull(r, ItemAt(r, p, 2 * i))
             \/ Binds(r, ItemAt(r, p, 2 * i), T.sub[PairField(r, p, T, i)])
          /\ \A j \in 1..(i - 1) : PairField(r, p, T, j) # PairField(r, p, T, i)
    /\ \E i \in 1..(ItemCount(r, p) \div 2) : IsNull(r, ItemAt(r, p, 2 * i))

(***************************************************************************)
(* C17.  Null binding: a Decode of Null succeeds and leaves a pointer or   *)
(* generic destination nil and any other destination at its type's zero    *)
(* value; a record field that a map pair gives Null is left the same way:  *)
(* nil when its type is a pointer, its zero value otherwise.               *)
(***************************************************************************)
C17_NullBinding ==
    /\ (DecodedInto /\ IsNull(data, last.start))
          => (last.err = "nil" /\ last.val = Zero(last.T))
    /\ (DecodedInto /\ NullFieldRecord(data, last.start, last.T))
          => /\ last.err = "nil"
             /\ \A i \in 1..(ItemCount(data, last.start) \div 2) :
                   IsNull(data, ItemAt(data, last.start, 2 * i))
                      => LET j == PairField(data, last.start, last.T, i)
                         IN  last.val.l[j] = Zero(last.T.sub[j])

\* the record type of the elements of the sequence type T: the element
\* type, or what it points to
RecordOf(T) == IF Elem(T).k = "ptr" THEN Elem(Elem(T)) ELSE Elem(T)

\* T is a sequence of records or of pointers to records, and the bytes at p
\* begin with the head of a definite-length array of n >= 1 items
RecordsHead(r, p, T) ==
    /\ T.k = "slice"
    /\ Elem(T).k = "struct" \/ (Elem(T).k = "ptr" /\ Elem(Elem(T)).k = "struct")
    /\ p < Len(r)
    /\ r[p + 1] \div 32 = 4 /\ r[p + 1] % 32 < 24 /\ r[p + 1] % 32 >= 1

\* where item e of that array starts, and that a definite-length map with
\* its pair count in the head byte starts there
RecAt(r, p, e) == ItemsEnd(r, p + 1, e - 1)
MapStarts(r, q) == q # -1 /\ q < Len(r) /\ r[q + 1] \div 32 = 5 /\ r[q + 1] % 32 < 24

\* the pairs of the map at q whose key is wholly in the stream, and the
\* fields of the record type S that such a key names: its text equals the
\* field's name up to letter case
KeyAt(r, q, i) == ItemsEnd(r, q + 1, 2 * i - 2)
KeysOf(r, q) ==
    {i \in 1..(r[q + 1] % 32) :
        KeyAt(r, q, i) # -1 /\ KeyAt(r, q, i) < Len(r) /\ ItemEnd(r, KeyAt(r, q, i)) # -1}
Named(S, r, kp) ==
    IF r[kp + 1] \div 32 = 3 /\ r[kp + 1] % 32 # 31
    THEN {j \in 1..Len(S.f) :
             EqualFold(S.f[j].name, SubSeq(r, HeadArg(r, kp).next + 1, ItemEnd(r, kp)))}
    ELSE {}
PairsFor(S, r, q, j) == {i \in KeysOf(r, q) : Named(S, r, KeyAt(r, q, i)) = {j}}

\* the last pair that the map at q has for field j gives it Null
NullGiven(S, r, q, j) ==
    /\ PairsFor(S, r, q, j) # {}
    /\ LET i == CHOOSE i \in PairsFor(S, r, q, j) : \A k \in PairsFor(S, r, q, j) : k <= i
       IN  ItemEnd(r, KeyAt(r, q, i)) < Len(r) /\ IsNull(r, ItemEnd(r, KeyAt(r, q, i)))

\* record e of the decoded sequence v of type T; it is there when the
\* sequence was allocated and, for a sequence of pointers, the pointer is set
HasRecord(v, T, e) ==
    e <= Len(v.l) /\ (Elem(T).k = "ptr" => ~v.l[e].nil)
Record(v, T, e) == IF Elem(T).k = "ptr" THEN v.l[e].l[1] ELSE v.l[e]

\* the fields of type pointer-to-text of a record type
TextPointers(S) == {j \in 1..Len(S.sub) : S.sub[j] = PtrTo(TString)}

C19_PointerAllocation ==
    (/\ DecodedInto /\ last.T.k = "ptr"
     /\ ItemEnd(data, last.start) # -1
     /\ ~IsNull(data, last.start))
        => LET bindsAs(direct) ==
                   direct.err = "nil"
                      => /\ last.err = "nil"
                         /\ ~last.val.nil
                         /\ last.val.l[1] = direct.val
                         /\ pos = direct.pos
           IN  bindsAs(decodeValue(dec, last.start, Elem(last.T), Zero(Elem(last.T))))

\* the item at p is an integer or a definite-length text string
ScalarItem(r, p) ==
    \/ r[p + 1] \div 32 \in {0, 1}
    \/ r[p + 1] \div 32 = 3 /\ r[p + 1] % 32 # 31

\* the natural host value of such an item: uint64 for an unsigned integer,
\* int64 for a negative one, string for a text string
Natural(r, p) ==
    CASE r[p + 1] \div 32 = 0 -> IntVal(TUint64, IntOf(r, p))
      [] r[p + 1] \div 32 = 1 -> IntVal(TInt64, IntOf(r, p))
      [] OTHER -> Bound(r, p, TString)

\* item i of the map at p is one of its keys, and the keyed map type T gives
\* its keys a type of their own
TypedKey(r, p, T, i) ==
    r[p + 1] \div 32 = 5 /\ i % 2 = 1 /\ T.k = "map" /\ Key(T) # TAny

\* the complete item at p is a definite-length array of n >= 1 items or map
\* of n >= 1 pairs with different keys, its items integers and text strings,
\* and T is the generic type, a sequence of generic elements for an array,
\* or a keyed map of generic elements whose key type the keys bind to
GenericContainer(r, p, T) ==
    /\ ItemEnd(r, p) # -1
    /\ r[p + 1] \div 32 \in {4, 5} /\ r[p + 1] % 32 # 31
    /\ ItemCount(r, p) >= 1
    /\ \/ T = TAny
       \/ r[p + 1] \div 32 = 4 /\ T = SliceOf(TAny)
       \/ r[p + 1] \div 32 = 5 /\ T.k = "map" /\ Elem(T) = TAny
    /\ \A i \in 1..ItemCount(r, p) :
          /\ ScalarItem(r, ItemAt(r, p, i))
          /\ TypedKey(r, p, T, i) => Binds(r, ItemAt(r, p, i), Key(T))
          /\ r[p + 1] \div 32 = 5 /\ i % 2 = 1
                => \A j \in 1..(i - 1) :
                      j % 2 = 1 => ItemBytes(r, ItemAt(r, p, j)) # ItemBytes(r, ItemAt(r, p, i))

\* the host value of that container: []interface{} or
\* map[interface{}]interface{} when T is generic, a T otherwise, holding the
\* items' values in wire order
GenericValue(r, p, T) ==
    Value(IF T # TAny THEN T
          ELSE IF r[p + 1] \div 32 = 4 THEN SliceOf(TAny) ELSE MapOf(TAny, TAny),
          FALSE, <<>>,
          [i \in 1..ItemCount(r, p) |->
              IF TypedKey(r, p, T, i) THEN Bound(r, ItemAt(r, p, i), Key(T))
              ELSE Natural(r, ItemAt(r, p, i))])

(***************************************************************************)
(* C20.  Generic destination: a Decode of a definite-length array of       *)
(* n >= 1 integers and text strings, or map of n >= 1 pairs of them, into   *)
(* a generic destination or a sequence or keyed map of generic elements     *)
(* succeeds, consumes the item's bytes and leaves the natural host values   *)
(* of the items in wire order.                                             *)
(***************************************************************************)
C20_GenericDestination ==
    (DecodedInto /\ GenericContainer(data, last.start, last.T))
        => /\ last.err = "nil"
           /\ pos = ItemEnd(data, last.start)
           /\ last.val = GenericValue(data, last.start, last.T)

\* the latest call is a Decode through a valid pointer to a T, the variable
\* fresh or filled by the call before
DecodedAgain == last.op = "Decode" /\ last.mode \in {"ptr", "again"}

\* the complete item at p is a definite-length array whose items bind to the
\* element type of the sequence type T
ArrayFor(r, p, T) ==
    /\ T.k \in {"slice", "array"}
    /\ ItemEnd(r, p) # -1
    /\ r[p + 1] \div 32 = 4 /\ r[p + 1] % 32 # 31
    /\ Compatible(r, p, SliceOf(Elem(T)))

(***************************************************************************)
(* C21.  Sequence binding: a Decode of a definite-length array of n items  *)
(* into a fixed-length sequence succeeds only when the sequence's length   *)
(* is n, and fails with the wrong-length error otherwise when n is within  *)
(* the array limit; into a growable sequence it does not panic, and when   *)
(* it succeeds the sequence has exactly n elements, whatever the variable  *)
(* held before the call.                                                   *)
(***************************************************************************)
C21_SequenceBinding ==
    (DecodedAgain /\ ArrayFor(data, last.start, last.T))
        => LET n == ItemCount(data, last.start)
           IN  /\ last.T.k = "array"
                     => /\ last.err = "nil" => last.T.n = n
                        /\ (last.T.n # n /\ (maxArrayElements < 0 \/ n <= maxArrayElements))
                              => last.err = "cbor: wrong array length"
               /\ last.T.k = "slice"
                     => /\ last.err # "panic"
                        /\ last.err = "nil" => Len(last.val.l) = n

\* the complete item at p is an array or a map of indefinite length
IndefiniteContainer(r, p) ==
    /\ ItemEnd(r, p) # -1
    /\ r[p + 1] \div 32 \in {4, 5} /\ r[p + 1] % 32 = 31

\* the different keys among the pairs of the map at p, as their bytes
DistinctKeys(r, p) ==
    {ItemBytes(r, ItemAt(r, p, 2 * i - 1)) : i \in 1..(ItemCount(r, p) \div 2)}

(***************************************************************************)
(* C22.  Indefinite-length containers: a Decode of a complete array or map *)
(* of indefinite length into a compatible destination succeeds, reads up   *)
(* to and including the Break at the container's level, and leaves a       *)
(* sequence of as many elements as there are items before the Break, or a  *)
(* keyed map of as many entries as there are keys among its pairs.         *)
(***************************************************************************)
C22_IndefiniteLength ==
    (/\ DecodedInto
     /\ IndefiniteContainer(data, last.start)
     /\ Compatible(data, last.start, last.T))
        => /\ last.err = "nil"
           /\ pos = ItemEnd(data, last.start)
           /\ last.T.k = "slice" => Len(last.val.l) = ItemCount(data, last.start)
           /\ last.T.k = "map"
                 => Len(last.val.l) = 2 * Cardinality(DistinctKeys(data, last.start))

\* the bytes at p begin with a complete tag head whose number is outside
\* the recognised tags 0..5, 21..29, 32..36 and 258 and above
UnknownTag(r, p) ==
    /\ p < Len(r) /\ r[p + 1] \div 32 = 6
    /\ HeadArg(r, p).ok
    /\ IsSmall(HeadArg(r, p).n)
    /\ Val(HeadArg(r, p).n) \in ((6..20) \cup {30, 31} \cup (37..257))

(***************************************************************************)
(* C23.  Unknown tags are transparent: a Decode of an item under a tag     *)
(* outside the recognised set ends as a Decode of the inner item into the  *)
(* same destination ends: when that binds without error, so does the       *)
(* tagged item, to the same value and the same cursor.                     *)
(***************************************************************************)
C23_UnknownTagTransparent ==
    (DecodedInto /\ UnknownTag(data, last.start))
        => LET sameAs(inner) ==
                   inner.err = "nil"
                      => /\ last.err = "nil"
                         /\ last.val = inner.val
                         /\ pos = inner.pos
           IN  sameAs(decodeValue(dec, HeadArg(data, last.start).next, last.T,
                                  Zero(last.T)))

(***************************************************************************)
(* C24.  Custom hooks take precedence: a Decode of a complete item into a  *)
(* destination whose type implements UnmarshalCBOR ends as the hook ends   *)
(* when it is called with the item's bytes: the hook of THooked returns    *)
(* nil and leaves the bytes in the field raw, and the cursor is after the  *)
(* item.                                                                   *)
(***************************************************************************)
C24_HooksTakePrecedence ==
    (DecodedInto /\ last.T = THooked /\ ItemEnd(data, last.start) # -1)
        => /\ last.err = "nil"
           /\ last.val.l[1] = BytesVal(ItemBytes(data, last.start))
           /\ pos = ItemEnd(data, last.start)

\* the four limits of the Decoder
Limits == <<maxArrayElements, maxMapPairs, maxStringBytes, maxBytes>>

(***************************************************************************)
(* C28.  Limit settings: a new Decoder has its four limits at 1,000,000;   *)
(* SetMax(n) leaves all four at n; the setter of one limit leaves that     *)
(* limit at n and the other three as they were; a Decode leaves all four   *)
(* as they were.  Each limit is thus the argument of the latest call       *)
(* among SetMax and its own setter.                                        *)
(***************************************************************************)
C28_LimitSettings ==
    /\ [](last.op = "NewDecoder" => Limits = <<1000000, 1000000, 1000000, 1000000>>)
    /\ [][/\ last'.op = "SetMax" => Limits' = <<last'.n, last'.n, last'.n, last'.n>>
          /\ last'.op = "SetMaxArrayElements"
                => Limits' = [Limits EXCEPT ![1] = last'.n]
          /\ last'.op = "SetMaxMapPairs"
                => Limits' = [Limits EXCEPT ![2] = last'.n]
          /\ last'.op = "SetMaxStringBytes"
                => Limits' = [Limits EXCEPT ![3] = last'.n]
          /\ last'.op = "SetMaxBytes"
                => Limits' = [Limits EXCEPT ![4] = last'.n]
          /\ last'.op = "Decode" => Limits' = Limits]_vars

\* a Decode has returned on a Decoder whose four limits were set to one
\* value by SetMax and then, the pair limit for one, by their own setters
C28_Witness ==
    /\ last.op = "Decode"
    /\ Limits = <<-1, 1, -1, 1>>

(***************************************************************************)
(* C29.  Field-table cache: whatever the tasks that call storeFieldCache   *)
(* for one record type do, at most one of them builds the table for the    *)
(* type, and the entry stored under a type is never replaced once it is    *)
(* stored.                                                                 *)
(***************************************************************************)
C29_FieldCacheOnce ==
    /\ [](\A T \in RecordTypes :
             Cardinality({i \in 1..MaxTasks : tasks[i].T = T /\ tasks[i].made}) <= 1)
    /\ [][\A T \in RecordTypes :
             structTypeCache[T] # NoEntry => structTypeCache'[T] = structTypeCache[T]]_vars

\* a Decoder with the limits of dec on the one-element array that holds the
\* complete item at p
Wrapped(r, p) ==
    Decoder(<<129>> \o ItemBytes(r, p), maxArrayElements, maxMapPairs, maxStringBytes,
            maxBytes)

(***************************************************************************)
(* C30.  The two record-binding paths agree: a Decode of a complete map    *)
(* into a record type T ends as the Decode of the one-element array of     *)
(* that map into a sequence of T ends: with the same error, or without     *)
(* error and the element equal to the record.                              *)
(***************************************************************************)
C30_PathsAgree ==
    (/\ DecodedInto /\ last.T.k = "struct"
     /\ ItemEnd(data, last.start) # -1
     /\ data[last.start + 1] \div 32 = 5)
        => LET agrees(elem) ==
                   /\ elem.err = last.err
                   /\ last.err = "nil" => elem.val.l[1] = last.val
           IN  agrees(decodeValue(Wrapped(data, last.start), 0, SliceOf(last.T),
                                  Zero(SliceOf(last.T))))

(***************************************************************************)
(* The Encoder.  An encoding result is the bytes written to the writer and *)
(* the error returned; a write to the buffer does not fail.                *)
(***************************************************************************)
Out(out, err) == [out |-> out, err |-> err]

writeNull == Out(<<246>>, "nil")

writeBool(v) == Out(IF v THEN <<245>> ELSE <<244>>, "nil")

\* the head the switch of writeInt and writeUint writes for the word w
IntHead(w) ==
    IF w[1] # 0 \/ w[2] # 0 \/ w[3] # 0 \/ w[4] # 0 THEN <<27>> \o w
    ELSE IF w[5] # 0 \/ w[6] # 0 THEN <<26, w[5], w[6], w[7], w[8]>>
    ELSE IF w[7] # 0 THEN <<25, w[7], w[8]>>
    ELSE IF w[8] >= 24 THEN <<24, w[8]>>
    ELSE <<w[8]>>

MaxInt64 == <<127, 255, 255, 255, 255, 255, 255, 255>>
MaxUint64 == <<255, 255, 255, 255, 255, 255, 255, 255>>

writeInt(w) ==
    IF IsNeg(w) \/ w = MaxInt64 THEN Out(<<>>, "cbor: integer out of range")
    ELSE Out(IntHead(w), "nil")

writeUint(w) ==
    IF w = MaxUint64 THEN Out(<<>>, "cbor: integer out of range")
    ELSE Out(IntHead(w), "nil")

\* math.Float64bits of a float64 held as its binary64 bits, or of the zero
\* value
writeFloat(bits) ==
    Out(<<251>> \o (IF Len(bits) = 8 THEN bits ELSE W(0)), "nil")

writeString(bs) == Out(<<120, Len(bs) % 256>> \o bs, "nil")

\* v.MapKeys(): the entries in one of the orders the runtime may produce
RECURSIVE Reversed(_)
Reversed(l) ==
    IF Len(l) <= 2 THEN l ELSE Reversed(SubSeq(l, 3, Len(l))) \o SubSeq(l, 1, 2)

MapKeys(l, ord) == IF ord = "rev" THEN Reversed(l) ELSE l

RECURSIVE Encode(_, _)
RECURSIVE writeItems(_, _, _, _)

\* Encode of vs[i], vs[i + 1], ... after out, up to the first error
writeItems(out, vs, i, ord) ==
    IF i > Len(vs) THEN Out(out, "nil")
    ELSE LET after(e) ==
                 IF e.err # "nil" THEN Out(out \o e.out, e.err)
                 ELSE writeItems(out \o e.out, vs, i + 1, ord)
         IN  after(Encode(vs[i], ord))

writeArray(v, ord) == writeItems(<<152, Len(v.l) % 256>>, v.l, 1, ord)

writeMap(v, ord) == writeItems(<<184, (Len(v.l) \div 2) % 256>>, MapKeys(v.l, ord), 1, ord)

writeStruct(v, ord) == writeItems(<<184, Len(v.l) % 256>>, v.l, 1, ord)

Encode(v, ord) ==
    CASE v.t.k = "invalid" -> writeNull
      [] v.t.k = "bool" -> writeBool(v.s = <<1>>)
      [] v.t.k \in IntKinds -> writeInt(v.s)
      [] v.t.k \in UintKinds -> writeUint(v.s)
      [] v.t.k \in FloatKinds -> writeFloat(v.s)
      [] v.t.k = "string" -> writeString(v.s)
      [] v.t.k \in {"array", "slice"} -> writeArray(v, ord)
      [] v.t.k = "map" -> writeMap(v, ord)
      [] v.t.k = "struct" -> writeStruct(v, ord)
      [] OTHER -> Out(<<>>, "cbor: unsupported type")

(***************************************************************************)
(* Round trips: a caller encodes a value into a fresh buffer and decodes   *)
(* the buffer, through a new Decoder, into a destination of the value's    *)
(* type.                                                                   *)
(***************************************************************************)
SliceLit(E, l) == Value(SliceOf(E), FALSE, <<>>, l)
ArrayLit(E, l) == Value(ArrayOf(E, Len(l)), FALSE, <<>>, l)
MapLit(K, E, l) == Value(MapOf(K, E), FALSE, <<>>, l)
StructLit(T, l) == Value(T, FALSE, <<>>, l)
IntLit(k) == IntVal(TInt, IntToWord(k))
StrLit(bs) == StrVal(bs)

StrOne == <<79, 110, 101>>
StrTwo == <<84, 119, 111>>
StrWorld == <<119, 111, 114, 108, 100>>
\* type testStruct struct { One int; Two int }
TTestStruct ==
    StructOf(<<Field(StrOne, <<>>, FALSE, FALSE), Field(StrTwo, <<>>, FALSE, FALSE)>>,
             <<TInt, TInt>>)

\* the values the callers encode
EncValues ==
    { BoolVal(TRUE), BoolVal(FALSE),
      IntLit(0), IntLit(1), IntLit(23), IntLit(24), IntLit(100), IntLit(255), IntLit(256), IntLit(65536), IntLit(-1),
      IntVal(TInt64, MaxInt64), IntVal(TInt64, <<0, 0, 0, 1, 0, 0, 0, 0>>),
      IntVal(TInt8, W(1)), IntVal(TUint8, W(200)), IntVal(TUint64, W(1)),
      IntVal(TUint64, MaxUint64),
      StrLit(<<>>), StrLit(<<97, 97>>), StrLit(StrHello),
      FloatVal(TFloat64, <<63, 240, 0, 0, 0, 0, 0, 0>>),
      SliceLit(TInt, <<>>), SliceLit(TInt, <<IntLit(1), IntLit(2)>>), SliceLit(TInt, <<IntLit(100)>>),
      SliceLit(TString, <<StrLit(<<97, 97>>)>>), SliceLit(TBool, <<BoolVal(TRUE)>>),
      SliceLit(SliceOf(TInt), <<SliceLit(TInt, <<IntLit(1)>>)>>),
      SliceLit(TUint8, <<IntVal(TUint8, W(1)), IntVal(TUint8, W(2))>>),
      SliceLit(PtrTo(TInt), <<New(TInt)>>),
      ArrayLit(TInt, <<IntLit(1), IntLit(2)>>),
      MapLit(TString, TString, <<StrLit(StrHello), StrLit(StrWorld)>>),
      MapLit(TInt, TInt, <<IntLit(1), IntLit(1), IntLit(2), IntLit(2)>>),
      MapLit(TString, TInt, <<StrLit(<<97, 97>>), IntLit(1)>>),
      StructLit(TStructHello, <<StrLit(StrWorld)>>),
      StructLit(TTestStruct, <<IntLit(1), IntLit(2)>>),
      \* a string of 256 bytes
      StrLit([i \in 1..256 |-> 97]) }

InitRT ==
    /\ data = <<>>
    /\ pos = 0
    /\ maxArrayElements = DefaultMaxValue
    /\ maxMapPairs = DefaultMaxValue
    /\ maxStringBytes = DefaultMaxValue
    /\ maxBytes = DefaultMaxValue
    /\ calls = 0
    /\ last = Call("NewEncoder", "none", TNil, 0, "nil", NilIface, 0)
    /\ structTypeCache = [T \in RecordTypes |-> NoEntry]
    /\ tasks = [i \in 1..MaxTasks |-> Idle]

\* NewEncoder(&buf).Encode(v) on an empty buffer, then NewDecoder(&buf)
EncodeValue(v, ord) ==
    /\ calls < MaxDecodes
    /\ last.op # "Encode" \/ last.err # "nil"
    /\ \E e \in {Encode(v, ord)} :
          /\ data' = e.out
          /\ last' = Call("Encode", "none", v.t, 0, e.err, v, 0)
    /\ pos' = 0
    /\ UNCHANGED <<maxArrayElements, maxMapPairs, maxStringBytes, maxBytes, calls,
                 structTypeCache, tasks>>

\* Decode(&dst) with dst a zero value of the type of the value encoded
DecodeBack == last.op = "Encode" /\ Decode([mode |-> "ptr", T |-> last.T])

NextRT ==
    \/ \E v \in EncValues, ord \in {"fwd", "rev"} : EncodeValue(v, ord)
    \/ DecodeBack

SpecRT == InitRT /\ [][NextRT]_vars

\* equality of two values of the same type, the order of map entries aside
\* and a nil slice or map taken for an empty one
RECURSIVE Equal(_, _)
Equal(a, b) ==
    /\ a.t = b.t
    /\ a.s = b.s
    /\ Len(a.l) = Len(b.l)
    /\ IF a.t.k = "map"
       THEN \A x \in 1..(Len(a.l) \div 2) : \E y \in 1..(Len(b.l) \div 2) :
                Equal(a.l[2 * x - 1], b.l[2 * y - 1]) /\ Equal(a.l[2 * x], b.l[2 * y])
       ELSE /\ a.t.k = "ptr" => a.nil = b.nil
            /\ \A i \in 1..Len(a.l) : Equal(a.l[i], b.l[i])

(***************************************************************************)
(* C3.  Round trip: when Encode has accepted a value, the Decode of the    *)
(* bytes it wrote into a destination of the value's type succeeds and      *)
(* leaves the destination equal to the value, the order of map entries     *)
(* aside.                                                                  *)
(***************************************************************************)
C3_RoundTrip ==
    [][(last.op = "Encode" /\ last.err = "nil" /\ last'.op = "Decode")
          => (last'.err = "nil" /\ Equal(last'.val, last.val))]_vars

\* the latest call is an Encode that returned nil
Encoded == last.op = "Encode" /\ last.err = "nil"

\* how many bytes, elements or pairs the text string, sequence or keyed map
\* v holds
Length(v) ==
    CASE v.t.k = "string" -> Len(v.s)
      [] v.t.k = "map" -> Len(v.l) \div 2
      [] OTHER -> Len(v.l)

(***************************************************************************)
(* C25.  Encoder length heads: when Encode has accepted a text string, an  *)
(* array, a slice or a map, the bytes written are one well-formed item     *)
(* whose head declares the number of bytes, elements or pairs the value    *)
(* holds.                                                                  *)
(***************************************************************************)
C25_EncoderLengthHeads ==
    (Encoded /\ last.val.t.k \in {"string", "slice", "array", "map"})
        => /\ ItemEnd(data, 0) = Len(data)
           /\ HeadArg(data, 0).n = IntToWord(Length(last.val))

\* the text key of a record field: its annotated tag, or its name
FieldKey(fd) == IF fd.cborTag THEN fd.tag ELSE fd.name

(***************************************************************************)
(* C26.  Encoder records: when Encode has accepted a record, the bytes     *)
(* written are one well-formed map of as many pairs as the record has      *)
(* fields, pair i being the key of field i as a text string and then the   *)
(* encoding of the field's value.                                          *)
(***************************************************************************)
C26_EncoderRecords ==
    (Encoded /\ last.val.t.k = "struct")
        => /\ ItemEnd(data, 0) = Len(data)
           /\ data[1] \div 32 = 5
           /\ ItemCount(data, 0) = 2 * Len(last.val.l)
           /\ \A i \in 1..Len(last.val.l) :
                 /\ data[ItemAt(data, 0, 2 * i - 1) + 1] \div 32 = 3
                 /\ Bound(data, ItemAt(data, 0, 2 * i - 1), TString).s
                       = FieldKey(last.val.t.f[i])
                 /\ \E ord \in {"fwd", "rev"} :
                       ItemBytes(data, ItemAt(data, 0, 2 * i)) = Encode(last.val.l[i], ord).out

\* the integer v is a negative value of a signed kind
Negative(v) == v.t.k \in IntKinds /\ IsNeg(v.s)

(***************************************************************************)
(* C27.  Encoder integers: Encode of an integer v of a signed or unsigned  *)
(* kind returns nil and writes one item, of major type 0 with argument v   *)
(* when v >= 0 and of major type 1 with argument -1 - v when v < 0.         *)
(***************************************************************************)
C27_EncoderIntegers ==
    (last.op = "Encode" /\ last.val.t.k \in IntKinds \cup UintKinds)
        => /\ last.err = "nil"
           /\ ItemEnd(data, 0) = Len(data)
           /\ data[1] \div 32 = (IF Negative(last.val) THEN 1 ELSE 0)
           /\ HeadArg(data, 0).n
                 = (IF Negative(last.val) THEN Not64(last.val.s) ELSE last.val.s)

====
